---- MODULE Spec2Model ----
(***************************************************************************)
(* A model of the OHLCV sanitizer of go-plugin-common (package utils) and  *)
(* of trading.Timeframe: its parser and its methods on times.              *)
(*                                                                         *)
(* The program state is that of one OHLCVSanitizer: timeframe, firstCandle,*)
(* lastCandle, initialized.  Every exported method is one action.  The     *)
(* other variables record what the last call was given and what it         *)
(* returned, and what has been returned since the last reset, so that the  *)
(* properties of the documentation can be stated as state predicates.      *)
(***************************************************************************)
EXTENDS Integers, Sequences, FiniteSets, Bags

\* ------------------------------------------------------------------ bounds

\* Longest batch of arbitrary candles a caller submits.
MaxLen == 2

\* Longest batch of several records a caller submits for validation.
MaxValidated == 2

\* Greatest number of pieces (a digit, a unit letter, a colon, a zone name)
\* a text given to TimeframeFromString is made of.
MaxPieces == 5

\* ------------------------------------------------------------- Timeframe

Minutes == "m"
Hours == "h"
Days == "D"
Weeks == "W"
Months == "M"
Years == "Y"

\* Unit.IsValid() returns nil.
UnitIsValid(u) == u \in { Hours, Minutes, Days, Weeks, Months, Years }

NewTimeframe(val, unit) == [Value |-> val, Unit |-> unit]

\* ToMinutes() that counts 31 days to the month and 366 to the year.
ToMinutesLongMonths(tf) ==
    LET mul == IF tf.Unit = Years THEN 60 * 24 * 366
               ELSE IF tf.Unit = Months THEN 60 * 24 * 31
               ELSE IF tf.Unit = Weeks THEN 60 * 24 * 7
               ELSE IF tf.Unit = Days THEN 60 * 24
               ELSE IF tf.Unit = Hours THEN 60
               ELSE 1
    IN  mul * tf.Value

\* Timeframe.ToMinutes() called without a reference time.  The multiplier
\* stays 1 for every unit that is none of h, D, W, M, Y.
ToMinutes(tf) ==
    LET mul == IF tf.Unit = Years THEN 60 * 24 * 365
               ELSE IF tf.Unit = Months THEN 60 * 24 * 30
               ELSE IF tf.Unit = Weeks THEN 60 * 24 * 7
               ELSE IF tf.Unit = Days THEN 60 * 24
               ELSE IF tf.Unit = Hours THEN 60
               ELSE 1
    IN  mul * tf.Value

\* The timeframes a sanitizer is constructed with or switched to: one and
\* two minutes, and the zero-valued "0m", which the parser accepts.
Timeframes ==
    { NewTimeframe(1, Minutes), NewTimeframe(2, Minutes), NewTimeframe(0, Minutes) }

\* ----------------------------------------------------------- OHLCVRecord

\* A nil *OHLCVRecord.
Nil == [nil |-> TRUE]

OHLCVRecord(t, o, h, l, c, v) ==
    [OpenTime |-> t, Open |-> o, High |-> h, Low |-> l, Close |-> c, Volume |-> v]

\* Candle open times, in Unix seconds: four consecutive whole minutes.
OpenTimes == { 0, 60, 120, 180 }

\* The candles callers submit: at every open time two candles that differ
\* in their close.
Candles ==
    { OHLCVRecord(t, "100.0", "102.0", "99.0", c, "1000") :
        t \in OpenTimes, c \in {"100.5", "101.0"} }

\* Batches in which the open times strictly ascend, of length n, all with
\* the same close.
AscendingBatches(n) ==
    { b \in [1..n -> { c \in Candles : c.Close = "100.5" }] :
        \A i \in 1..(n - 1) : b[i].OpenTime < b[i + 1].OpenTime }

\* The batches callers submit: every sequence of at most MaxLen candles, in
\* any order and with repetitions, and the ascending batches one longer.
Batches ==
    UNION { [1..n -> Candles] : n \in 0..MaxLen } \cup AscendingBatches(MaxLen + 1)

\* ------------------------------------------------------------- sort.Slice

IndexPerms(n) ==
    { p \in [1..n -> 1..n] : \A i, j \in 1..n : i # j => p[i] # p[j] }

\* less(i, j) of the sort.Slice call.
Less(a, b) == a.OpenTime < b.OpenTime

\* A call that leaves the slice as the caller ordered it.
SortOutcomesUnsorted(batch) == { batch }

\* What sort.Slice may leave in the slice: any arrangement of the same
\* records in which no record is followed by one less than it.  sort.Slice
\* is not documented to be stable, so records of equal OpenTime may come
\* out in any order.  (Go 1.24 sorts a slice of at most 12 records by
\* insertion, which keeps equal records in order, and a longer one by
\* pattern-defeating quicksort, which does not: it reverses, for one, a
\* descending slice of 50 records.  The batches here are short and stand for
\* batches of any length, so the model keeps to the documented contract.)
SortOutcomes(batch) ==
    { [i \in 1..Len(batch) |-> batch[p[i]]] : p \in
        { q \in IndexPerms(Len(batch)) :
            \A i \in 1..(Len(batch) - 1) : ~Less(batch[q[i + 1]], batch[q[i]]) } }

\* ---------------------------------------------------------- OHLCVSanitizer

VARIABLES
    timeframe,      \* s.timeframe
    firstCandle,    \* s.firstCandle, Nil or a record
    lastCandle,     \* s.lastCandle, Nil or a record
    initialized,    \* s.initialized
    pc,             \* "ready" for a call, "returned" from one, or "diverged"
    op,             \* the method called last
    pre,            \* the sanitizer as it was when that call started
    batchIn,        \* the batch that call was given
    tfIn,           \* the timeframe that call was given
    batchOut,       \* the caller's slice after the call
    out,            \* the records SanitizeBatch returned, each tagged gap or not
    err,            \* the error SanitizeBatch returned
    got,            \* what GetLastCandle returned
    hist,           \* bag of the OpenTimes returned since the last reset
    maxReal,        \* the submitted candle of greatest OpenTime returned since then
    fwd,            \* every call since then was non-empty and beyond all earlier ones
    contig,         \* ... and was spaced by exactly one period
    maxIn,          \* greatest OpenTime submitted since then (while fwd)
    wasReset,       \* Reset() has been called
    fresh,          \* a sanitizer constructed at the last reset, given the same calls
    freshOut,       \* what its last SanitizeBatch returned
    firstAt,        \* the variable s.firstCandle points to
    lastAt,         \* the variable s.lastCandle points to
    gotAt,          \* the variable the pointer GetLastCandle returned points to
    strIn,          \* the text given to TimeframeFromString
    parsed,         \* what TimeframeFromString returned for it
    tfOn,           \* the Timeframe whose method is called on a time
    timeIn,         \* the time it is called on
    timeOut         \* what the call came to

vars ==
    << timeframe, firstCandle, lastCandle, initialized, pc, op, pre, batchIn, tfIn,
       batchOut, out, err, got, hist, maxReal, fwd, contig, maxIn, wasReset, fresh,
       freshOut, firstAt, lastAt, gotAt, strIn, parsed, tfOn, timeIn, timeOut >>

\* The sanitizer as one value.
Sanitizer(tf, first, last, init) ==
    [timeframe |-> tf, firstCandle |-> first, lastCandle |-> last, initialized |-> init]

Self == Sanitizer(timeframe, firstCandle, lastCandle, initialized)

NewOHLCVSanitizer(tf) == Sanitizer(tf, Nil, Nil, FALSE)

\* candleDurationSeconds
CandleDurationSeconds(s) == ToMinutes(s.timeframe) * 60

\* A walk that lacks the internal duplicate check.
InternalDuplicateNever(batch, i) == FALSE

\* 1. Internal Duplicate Check
InternalDuplicate(batch, i) ==
    i > 1 /\ batch[i].OpenTime = batch[i - 1].OpenTime

\* An external duplicate check that leaves lastCandle's own time out of the range.
ExternalDuplicateOpenEnd(s, candle) ==
    /\ s.initialized /\ s.firstCandle # Nil /\ s.lastCandle # Nil
    /\ candle.OpenTime >= s.firstCandle.OpenTime
    /\ candle.OpenTime < s.lastCandle.OpenTime

\* An external duplicate check that leaves firstCandle's own time out of the range.
ExternalDuplicateOpenStart(s, candle) ==
    /\ s.initialized /\ s.firstCandle # Nil /\ s.lastCandle # Nil
    /\ candle.OpenTime > s.firstCandle.OpenTime
    /\ candle.OpenTime <= s.lastCandle.OpenTime

\* 2. External Duplicate Check
ExternalDuplicate(s, candle) ==
    /\ s.initialized /\ s.firstCandle # Nil /\ s.lastCandle # Nil
    /\ candle.OpenTime >= s.firstCandle.OpenTime
    /\ candle.OpenTime <= s.lastCandle.OpenTime

\* A gap record that carries lastCandle's open forward as its open.
GapCandleKeepsOpen(last, nextTs) ==
    OHLCVRecord(nextTs, last.Open, last.Close, last.Close, last.Close, "0.00000000")

\* The record the gap loop appends for nextTs.
GapCandle(last, nextTs) ==
    OHLCVRecord(nextTs, last.Close, last.Close, last.Close, last.Close, "0.00000000")

\* A gap condition that is not limited to the first retained candle.
GapConditionEveryCandle(s, candle, resultLen) ==
    /\ s.initialized /\ s.lastCandle # Nil
    /\ candle.OpenTime > s.lastCandle.OpenTime

\* The condition under which the gap loop is entered for a candle.
GapCondition(s, candle, resultLen) ==
    /\ resultLen = 0 /\ s.initialized /\ s.lastCandle # Nil
    /\ candle.OpenTime > s.lastCandle.OpenTime

\* A gap loop that runs while nextTs <= candle.OpenTime.
RECURSIVE GapLoopInclusive(_, _, _, _)
GapLoopInclusive(last, nextTs, limit, step) ==
    IF nextTs <= limit
    THEN << [c |-> OHLCVRecord(nextTs, last.Close, last.Close, last.Close,
                               last.Close, "0.00000000"), gap |-> TRUE] >>
            \o GapLoopInclusive(last, nextTs + step, limit, step)
    ELSE << >>

\* for nextTs < candle.OpenTime { append gap; nextTs += candleDurationSeconds }
RECURSIVE GapLoop(_, _, _, _)
GapLoop(last, nextTs, limit, step) ==
    IF nextTs < limit
    THEN << [c |-> GapCandle(last, nextTs), gap |-> TRUE] >>
            \o GapLoop(last, nextTs + step, limit, step)
    ELSE << >>

\* The gap loop never ends when it is entered with a step that does not
\* advance nextTs.
GapLoopDiverges(nextTs, limit, step) == nextTs < limit /\ step <= 0

\* A gap filling whose nextTs starts two periods after lastCandle.
GapFillSkipsFirst(s, candle, resultLen) ==
    IF GapCondition(s, candle, resultLen)
    THEN GapLoop(s.lastCandle, s.lastCandle.OpenTime + 2 * CandleDurationSeconds(s),
                 candle.OpenTime, CandleDurationSeconds(s))
    ELSE << >>

\* 3. Gap Filling (before the first valid candle of this batch)
GapFill(s, candle, resultLen) ==
    IF GapCondition(s, candle, resultLen)
    THEN GapLoop(s.lastCandle, s.lastCandle.OpenTime + CandleDurationSeconds(s),
                 candle.OpenTime, CandleDurationSeconds(s))
    ELSE << >>

\* for i, candle := range batch { ... }, from index i on with result so far.
RECURSIVE Walk(_, _, _, _)
Walk(s, batch, i, result) ==
    IF i > Len(batch) THEN result
    ELSE IF InternalDuplicate(batch, i) THEN Walk(s, batch, i + 1, result)
    ELSE IF ExternalDuplicate(s, batch[i]) THEN Walk(s, batch, i + 1, result)
    ELSE Walk(s, batch, i + 1,
              result \o GapFill(s, batch[i], Len(result))
                     \o << [c |-> batch[i], gap |-> FALSE] >>)

\* The candles of the sorted batch that pass both duplicate checks.
Retained(s, batch) ==
    { i \in 1..Len(batch) :
        ~InternalDuplicate(batch, i) /\ ~ExternalDuplicate(s, batch[i]) }

\* Whether the walk over the sorted batch enters a gap loop that never ends.
WalkDiverges(s, batch) ==
    /\ Retained(s, batch) # {}
    /\ LET i == CHOOSE j \in Retained(s, batch) : \A k \in Retained(s, batch) : j <= k
       IN  /\ GapCondition(s, batch[i], 0)
           /\ GapLoopDiverges(s.lastCandle.OpenTime + CandleDurationSeconds(s),
                              batch[i].OpenTime, CandleDurationSeconds(s))

\* A boundary update that takes the first record of every result as firstCandle.
UpdateFirstAlways(s, result) == result[1].c

\* Update boundaries: firstCandle
UpdateFirst(s, result) ==
    IF ~s.initialized \/ result[1].c.OpenTime < s.firstCandle.OpenTime
    THEN result[1].c ELSE s.firstCandle

\* A boundary update that takes the last record of every result as lastCandle.
UpdateLastAlways(s, result) == result[Len(result)].c

\* Update boundaries: lastCandle
UpdateLast(s, result) ==
    IF ~s.initialized \/ result[Len(result)].c.OpenTime > s.lastCandle.OpenTime
    THEN result[Len(result)].c ELSE s.lastCandle

\* A SanitizeBatch that sets initialized before it looks at the result.
SanitizeBatchMarksInitialized(s, sorted) ==
    LET result == Walk(s, sorted, 1, << >>)
    IN  IF Len(result) = 0
        THEN [result |-> << >>, err |-> Nil,
              s |-> Sanitizer(s.timeframe, s.firstCandle, s.lastCandle, TRUE)]
        ELSE [result |-> result, err |-> Nil,
              s |-> Sanitizer(s.timeframe, UpdateFirst(s, result),
                              UpdateLast(s, result), TRUE)]

\* SanitizeBatch(batch) from the sort on, sorted being what the sort left in
\* the slice: the records returned, the error returned, the sanitizer after.
SanitizeBatch(s, sorted) ==
    IF Len(sorted) = 0 THEN [result |-> sorted, err |-> Nil, s |-> s]
    ELSE LET result == Walk(s, sorted, 1, << >>)
         IN  IF Len(result) = 0 THEN [result |-> << >>, err |-> Nil, s |-> s]
             ELSE [result |-> result, err |-> Nil,
                   s |-> Sanitizer(s.timeframe, UpdateFirst(s, result),
                                   UpdateLast(s, result), TRUE)]

\* --------------------------------------------------------------- pointers
\* Where a pointer points: nowhere, to a local variable of the method that
\* set it, or to an element of a slice the caller holds after the call (its
\* batch, the result).

Cell(name, i) == [name |-> name, index |-> i]

NilAt == Cell("nil", 0)

\* first := result[0]; s.firstCandle = &first
FirstCandleAt(result) == Cell("first", 0)

\* A boundary update that points lastCandle into the returned slice.
LastCandleAtResult(result) == Cell("result", Len(result))

\* last := result[len(result)-1]; s.lastCandle = &last
LastCandleAt(result) == Cell("last", 0)

\* lastCopy := *s.lastCandle; return &lastCopy (nil when lastCandle is nil)
GetLastCandleAt(s) == IF s.lastCandle = Nil THEN NilAt ELSE Cell("lastCopy", 0)

\* Where firstCandle points after the boundary update of a non-empty result.
UpdateFirstAt(s, at, result) ==
    IF ~s.initialized \/ result[1].c.OpenTime < s.firstCandle.OpenTime
    THEN FirstCandleAt(result) ELSE at

\* Where lastCandle points after the boundary update of a non-empty result.
UpdateLastAt(s, at, result) ==
    IF ~s.initialized \/ result[Len(result)].c.OpenTime > s.lastCandle.OpenTime
    THEN LastCandleAt(result) ELSE at

\* A pointer once the caller has let go of the slices of the last call.
Released(at) == IF at.name \in {"batch", "result"} THEN Cell("released", 0) ELSE at

\* A record after the caller has written to it through a reference it holds.
Written(record) == [record EXCEPT !.Close = "0.0"]

\* A Reset that keeps lastCandle.
ResetKeepsLast(s) == Sanitizer(s.timeframe, Nil, s.lastCandle, FALSE)

\* A Reset that leaves initialized as it is.
ResetKeepsInitialized(s) == Sanitizer(s.timeframe, Nil, Nil, s.initialized)

\* s.Reset()
Reset(s) == Sanitizer(s.timeframe, Nil, Nil, FALSE)

\* A SetTimeframe that does not reset.
SetTimeframeNoReset(s, tf) == Sanitizer(tf, s.firstCandle, s.lastCandle, s.initialized)

\* s.SetTimeframe(tf)
SetTimeframe(s, tf) == Reset(Sanitizer(tf, s.firstCandle, s.lastCandle, s.initialized))

\* s.GetLastCandle(): nil, or a copy of the record.
GetLastCandle(s) == IF s.lastCandle = Nil THEN Nil ELSE s.lastCandle

\* ------------------------------------------------------------ validation
\* A decimal field is a Go string.  SanitizeBatch only copies such strings,
\* so its candles carry them whole; validation reads their characters, so a
\* record submitted for validation carries each as a sequence of characters.
\* The texts of the model are made of digits, '.', '-', ' ' and the letter
\* 'a'; none has an exponent, a hexadecimal prefix, an underscore, or spells
\* NaN or Inf, so those branches of the scanner are left out.

Digit == << "0", "1", "2", "3", "4", "5", "6", "7", "8", "9" >>

IsDigit(c) == \E k \in DOMAIN Digit : Digit[k] = c

DigitValue(c) == (CHOOSE k \in DOMAIN Digit : Digit[k] = c) - 1

\* The value of a sequence of digits read as a decimal numeral.
RECURSIVE DecimalValue(_)
DecimalValue(ds) ==
    IF Len(ds) = 0 THEN 0
    ELSE DecimalValue(SubSeq(ds, 1, Len(ds) - 1)) * 10 + DigitValue(ds[Len(ds)])

RECURSIVE Pow10(_)
Pow10(e) == IF e = 0 THEN 1 ELSE 10 * Pow10(e - 1)

\* ss.SkipSpace from position i: the position of the next character that is
\* no space.
RECURSIVE SkipSpace(_, _)
SkipSpace(str, i) ==
    IF i <= Len(str) /\ str[i] = " " THEN SkipSpace(str, i + 1) ELSE i

\* ss.accept(chars) at position i: the position after it.
Accept(str, i, chars) == IF i <= Len(str) /\ str[i] \in chars THEN i + 1 ELSE i

\* for s.accept(digits) {}
RECURSIVE AcceptDigits(_, _)
AcceptDigits(str, i) ==
    IF i <= Len(str) /\ IsDigit(str[i]) THEN AcceptDigits(str, i + 1) ELSE i

\* ss.floatToken from position i: the position after the token, made of an
\* optional sign, digits, and an optional period followed by digits.
FloatTokenEnd(str, i) ==
    LET afterSign == Accept(str, i, {"+", "-"})
        afterInt == AcceptDigits(str, afterSign)
        afterPeriod == Accept(str, afterInt, {"."})
    IN  IF afterPeriod > afterInt THEN AcceptDigits(str, afterPeriod) ELSE afterInt

\* A float64 read from a short decimal: n / 10^e.
Float(n, e) == [n |-> n, e |-> e]

FloatLess(x, y) == x.n * Pow10(y.e) < y.n * Pow10(x.e)

\* strconv.ParseFloat(token): an error when the token holds no digit.
ConvertFloat(token) ==
    LET digits == SelectSeq(token, IsDigit)
        period == { k \in DOMAIN token : token[k] = "." }
        e == IF period = {} THEN 0 ELSE Len(token) - (CHOOSE k \in period : TRUE)
        n == DecimalValue(digits)
    IN  IF Len(digits) = 0 THEN [ok |-> FALSE, f |-> Float(0, 0)]
        ELSE [ok |-> TRUE,
              f |-> Float(IF token[1] = "-" THEN 0 - n ELSE n, e)]

\* parseFloat(s): fmt.Sscanf(s, "%f", &f) skips leading spaces, fails at the
\* end of the input, reads one float token and converts it; what follows the
\* token is left unread.
parseFloat(str) ==
    LET start == SkipSpace(str, 1)
        end == FloatTokenEnd(str, start)
    IN  IF start > Len(str) THEN [ok |-> FALSE, f |-> Float(0, 0)]
        ELSE ConvertFloat(SubSeq(str, start, end - 1))

\* fmt.Errorf(msg)
Errorf(msg) == [msg |-> msg]

\* validateRecord(record): Nil, or the error of the first check that fails.
validateRecord(s, record) ==
    LET open == parseFloat(record.Open)
        high == parseFloat(record.High)
        low == parseFloat(record.Low)
        close == parseFloat(record.Close)
        volume == parseFloat(record.Volume)
    IN  IF record.OpenTime <= 0 THEN Errorf("invalid opentime")
        ELSE IF ~open.ok THEN Errorf("invalid open price")
        ELSE IF ~high.ok THEN Errorf("invalid high price")
        ELSE IF ~low.ok THEN Errorf("invalid low price")
        ELSE IF ~close.ok THEN Errorf("invalid close price")
        ELSE IF FloatLess(high.f, low.f) THEN Errorf("high less than low")
        ELSE IF FloatLess(high.f, open.f) \/ FloatLess(high.f, close.f)
             THEN Errorf("high less than open or close")
        ELSE IF FloatLess(open.f, low.f) \/ FloatLess(close.f, low.f)
             THEN Errorf("low greater than open or close")
        ELSE IF ~volume.ok THEN Errorf("invalid volume")
        ELSE Nil

\* for i, record := range batch { ... }, from index i on (i counts from 1,
\* the index of the error from 0).
RECURSIVE ValidateFrom(_, _, _)
ValidateFrom(s, batch, i) ==
    IF i > Len(batch) THEN Nil
    ELSE IF validateRecord(s, batch[i]) # Nil
         THEN [index |-> i - 1, err |-> validateRecord(s, batch[i])]
         ELSE ValidateFrom(s, batch, i + 1)

\* The texts of the price fields and of the volume field of the records
\* submitted for validation.
PriceTexts == { <<"1">>, <<"2">>, <<"2", ".", "5">>, <<"2", "a">>, <<"a">> }

VolumeTexts == { <<"1", "0">>, <<" ", "1">>, << >> }

\* The records submitted for validation one at a time.
ValidatedRecords ==
    { OHLCVRecord(t, o, h, l, c, v) :
        t \in { -60, 0, 60 }, o \in PriceTexts, h \in PriceTexts, l \in PriceTexts,
        c \in PriceTexts, v \in VolumeTexts }

\* A record that is in order, and the same with one thing changed: no open
\* time, letters after the open price, high below low, no volume.
Sound == OHLCVRecord(60, <<"2">>, <<"2", ".", "5">>, <<"1">>, <<"2">>, <<"1", "0">>)

Unsound ==
    { [Sound EXCEPT !.OpenTime = 0], [Sound EXCEPT !.Open = <<"2", "a">>],
      [Sound EXCEPT !.High = <<"1">>, !.Low = <<"2">>], [Sound EXCEPT !.Volume = << >>] }

\* The batches submitted for validation: every single record, and every
\* sequence of at most MaxValidated records that are sound or unsound in one way.
ValidatedBatches ==
    { << r >> : r \in ValidatedRecords }
        \cup UNION { [1..n -> {Sound} \cup Unsound] : n \in 0..MaxValidated }

\* The batches validated between the calls of a sanitizer in use.
ValidatedInUse ==
    { << >>, << Sound >>, << Sound, [Sound EXCEPT !.High = <<"1">>, !.Low = <<"2">>] >>,
      << [Sound EXCEPT !.OpenTime = 0], Sound >> }

\* A validation that treats the batch as SanitizeBatch does: it sorts the
\* caller's slice and moves the boundaries.
ValidateBatchSanitizing(s, batch) ==
    LET sorted == CHOOSE b \in SortOutcomes(batch) : TRUE
    IN  [err |-> ValidateFrom(s, batch, 1), batch |-> sorted,
         s |-> IF Len(batch) = 0 THEN s
               ELSE Sanitizer(s.timeframe, sorted[1], sorted[Len(sorted)], TRUE)]

\* s.ValidateBatch(batch): the error returned, the caller's slice after the
\* call, the sanitizer after the call.
ValidateBatch(s, batch) ==
    [err |-> ValidateFrom(s, batch, 1), batch |-> batch, s |-> s]

\* ---------------------------------------------------- TimeframeFromString
\* A text is the sequence of its characters.

UTC == << "U", "T", "C" >>

Tokyo == << "A", "s", "i", "a", "/", "T", "o", "k", "y", "o" >>

Mars == << "M", "a", "r", "s" >>

NewYork ==
    << "A", "m", "e", "r", "i", "c", "a", "/", "N", "e", "w", "_", "Y", "o", "r", "k" >>

\* The zone names time.LoadLocation finds among those of the model.
LoadLocationFinds(name) == name \in { UTC, Tokyo, NewYork }

\* Timeframe{Value, Unit, Location}; the location is held by its name.
Timeframe(val, unit, location) == [Value |-> val, Unit |-> unit, Location |-> location]

\* Timeframe{}
ZeroTimeframe == Timeframe(0, "", Nil)

\* strings.Split(str, sep): the pieces of str between the occurrences of sep.
RECURSIVE Split(_, _)
Split(str, sep) ==
    IF \A i \in DOMAIN str : str[i] # sep THEN << str >>
    ELSE LET k == CHOOSE i \in DOMAIN str :
                      str[i] = sep /\ \A j \in 1..(i - 1) : str[j] # sep
         IN  << SubSeq(str, 1, k - 1) >> \o Split(SubSeq(str, k + 1, Len(str)), sep)

\* strconv.ParseUint(str, 10, 64) succeeds: str is one or more decimal digits
\* (none of the short texts of the model reaches 2^64).
ParseUintOk(str) == Len(str) > 0 /\ \A i \in DOMAIN str : IsDigit(str[i])

\* TimeframeFromString(str): the Timeframe and the error returned.
TimeframeFromString(str) ==
    LET parts == Split(str, ":")
        valUnit == parts[1]
        valStr == SubSeq(valUnit, 1, Len(valUnit) - 1)
        unit == valUnit[Len(valUnit)]
    IN  IF Len(parts) < 1
        THEN [tf |-> ZeroTimeframe, err |-> Errorf("invalid timeframe format")]
        ELSE IF Len(valUnit) < 2
        THEN [tf |-> ZeroTimeframe, err |-> Errorf("invalid timeframe string")]
        ELSE IF ~ParseUintOk(valStr)
        THEN [tf |-> ZeroTimeframe, err |-> Errorf("strconv.ParseUint")]
        ELSE IF ~UnitIsValid(unit)
        THEN [tf |-> ZeroTimeframe, err |-> Errorf("unknown timeframe unit")]
        ELSE IF Len(parts) >= 2 /\ parts[2] # << >>
        THEN IF parts[2] = UTC
             THEN [tf |-> Timeframe(DecimalValue(valStr), unit, UTC), err |-> Nil]
             ELSE IF ~LoadLocationFinds(parts[2])
             THEN [tf |-> ZeroTimeframe, err |-> Errorf("invalid time zone")]
             ELSE [tf |-> Timeframe(DecimalValue(valStr), unit, parts[2]), err |-> Nil]
        ELSE [tf |-> Timeframe(DecimalValue(valStr), unit, UTC), err |-> Nil]

\* The pieces the texts of the model are made of.
Pieces == { <<"5">>, <<"0">>, <<"m">>, <<"x">>, <<":">>, UTC, Tokyo, Mars }

RECURSIVE Concat(_)
Concat(pieces) == IF Len(pieces) = 0 THEN << >> ELSE pieces[1] \o Concat(Tail(pieces))

\* The texts of at most max pieces.
Texts(max) == { Concat(ps) : ps \in UNION { [1..n -> Pieces] : n \in 0..max } }

\* A %d that prints the last digit only.
FormatUintLastDigit(n) == << Digit[(n % 10) + 1] >>

\* fmt's %d of a uint64: the decimal digits of n, without leading zeros.
RECURSIVE FormatUint(_)
FormatUint(n) ==
    IF n < 10 THEN << Digit[n + 1] >>
    ELSE FormatUint(n \div 10) \o << Digit[(n % 10) + 1] >>

\* tf.String()
String(tf) == FormatUint(tf.Value) \o << tf.Unit >>

\* tf.StringWithLocation(); Location.String() is the name of the location.
StringWithLocation(tf) ==
    LET locStr == IF tf.Location = Nil THEN UTC ELSE tf.Location
    IN  FormatUint(tf.Value) \o << tf.Unit >> \o << ":" >> \o locStr

\* ----------------------------------------------------------- package time
\* A time.Time is its Unix seconds and the name of its location (every time
\* of the model is a whole number of seconds).  A nil location is UTC.

Time(unix, loc) == [unix |-> unix, loc |-> IF loc = Nil THEN UTC ELSE loc]

\* The days from 1970-01-01 to day d of month m (1..12) of year y, in the
\* proleptic Gregorian calendar; d may lie outside the month.
DaysFromCivil(y, m, d) ==
    LET yy == IF m <= 2 THEN y - 1 ELSE y
        era == yy \div 400
        yoe == yy - era * 400
        mp == IF m > 2 THEN m - 3 ELSE m + 9
        doy == (153 * mp + 2) \div 5 + d - 1
        doe == yoe * 365 + yoe \div 4 - yoe \div 100 + doy
    IN  era * 146097 + doe - 719468

\* The year, month and day of the day z days after 1970-01-01.  (Here and
\* below a value that is computed once and read often is the element of a
\* one-element set.)
CivilFromDays(z) ==
    CHOOSE civil \in
        { LET era == zz \div 146097
              doe == zz - era * 146097
              yoe == (doe - doe \div 1460 + doe \div 36524 - doe \div 146096) \div 365
              doy == doe - (365 * yoe + yoe \div 4 - yoe \div 100)
              mp == (5 * doy + 2) \div 153
              m == IF mp < 10 THEN mp + 3 ELSE mp - 9
          IN  [year |-> yoe + era * 400 + (IF m <= 2 THEN 1 ELSE 0),
               month |-> m,
               day |-> doy - (153 * mp + 2) \div 5 + 1] :
          zz \in { z + 719468 } } : TRUE

\* The day of the week of that day, Sunday = 0 (1970-01-01 was a Thursday).
WeekdayOfDays(z) == (z + 4) % 7

\* The first Sunday of month m of year y, in days from 1970-01-01.
FirstSunday(y, m) ==
    LET d1 == DaysFromCivil(y, m, 1) IN d1 + ((7 - WeekdayOfDays(d1)) % 7)

\* America/New_York since 2007: daylight time from 02:00 EST (07:00 UTC) of
\* the second Sunday of March to 02:00 EDT (06:00 UTC) of the first Sunday of
\* November.
DaylightStart(y) == (FirstSunday(y, 3) + 7) * 86400 + 7 * 3600

DaylightEnd(y) == FirstSunday(y, 11) * 86400 + 6 * 3600

\* Location.lookup(unix): the offset in use at the instant unix, and the
\* instants between which it is in use.  UTC and Asia/Tokyo keep one offset
\* over all the years of the model.
Lookup(loc, unix) ==
    IF loc = NewYork
    THEN CHOOSE zone \in
             { IF u < DaylightStart(y)
               THEN [offset |-> -18000, start |-> DaylightEnd(y - 1), end |-> DaylightStart(y)]
               ELSE IF u < DaylightEnd(y)
               THEN [offset |-> -14400, start |-> DaylightStart(y), end |-> DaylightEnd(y)]
               ELSE [offset |-> -18000, start |-> DaylightEnd(y), end |-> DaylightStart(y + 1)] :
               u \in { unix }, y \in { CivilFromDays(unix \div 86400).year } } : TRUE
    ELSE [offset |-> IF loc = Tokyo THEN 32400 ELSE 0,
          start |-> -2147483647, end |-> 2147483647]

\* time.Date(year, month, day, hour, min, sec, 0, loc): the month is brought
\* into 1..12 by carrying into the year, the day and the clock are counted
\* from the first of that month, and the local time is moved to UTC by the
\* offset found for it, looked up again when the first guess falls outside
\* the span of that offset.
Date(year, month, day, hour, min, sec, loc) ==
    CHOOSE t \in UNION
        { { LET utc == local - zone.offset
                offset == IF zone.offset # 0 /\ (utc < zone.start \/ utc >= zone.end)
                          THEN Lookup(loc, utc).offset
                          ELSE zone.offset
            IN  Time(local - offset, loc) :
              zone \in { Lookup(loc, local) } } :
            local \in { DaysFromCivil(year + (month - 1) \div 12,
                                      ((month - 1) % 12) + 1, day) * 86400
                          + hour * 3600 + min * 60 + sec } } : TRUE

\* The seconds since 1970-01-01 00:00:00 on the clock of t's location.
Local(t) == t.unix + Lookup(t.loc, t.unix).offset

\* t.Year(), t.Month(), t.Day(), t.Hour(), t.Minute(), t.Second()
Year(t) == CivilFromDays(Local(t) \div 86400).year

Month(t) == CivilFromDays(Local(t) \div 86400).month

Day(t) == CivilFromDays(Local(t) \div 86400).day

Hour(t) == (Local(t) % 86400) \div 3600

Minute(t) == (Local(t) % 3600) \div 60

Second(t) == Local(t) % 60

\* t.Weekday(), Sunday = 0
Weekday(t) == WeekdayOfDays(Local(t) \div 86400)

\* t.YearDay(), 1 for January 1
YearDay(t) == Local(t) \div 86400 - DaysFromCivil(Year(t), 1, 1) + 1

\* t.In(loc)
In(t, loc) == Time(t.unix, loc)

\* t.Add(d), d in seconds
Add(t, d) == Time(t.unix + d, t.loc)

\* t.AddDate(years, months, days)
AddDate(t, years, months, days) ==
    CHOOSE sum \in
        { Date(Year(u) + years, Month(u) + months, Day(u) + days,
               Hour(u), Minute(u), Second(u), u.loc) : u \in { t } } : TRUE

\* t.Sub(u), in seconds
Sub(t, u) == t.unix - u.unix

\* t.Equal(u): the same instant
Equal(t, u) == t.unix = u.unix

\* -------------------------------------------------------------- utils/time.go

StartOfMinute(t) == Date(Year(t), Month(t), Day(t), Hour(t), Minute(t), 0, t.loc)

StartOfHour(t) == Date(Year(t), Month(t), Day(t), Hour(t), 0, 0, t.loc)

StartOfDay(t) == Date(Year(t), Month(t), Day(t), 0, 0, 0, t.loc)

StartOfWeek(t) ==
    LET daysToSubtract == IF Weekday(t) = 0 THEN 6 ELSE Weekday(t) - 1
    IN  AddDate(StartOfDay(t), 0, 0, -daysToSubtract)

StartOfMonth(t) == Date(Year(t), Month(t), 1, 0, 0, 0, t.loc)

StartOfYear(t) == Date(Year(t), 1, 1, 0, 0, 0, t.loc)

\* ---------------------------------------------------- Timeframe and time
\* What a method call comes to: the value it returns, or the run-time panic
\* that ends it.

Return(v) == [panicked |-> FALSE, value |-> v]

Panic(msg) == [panicked |-> TRUE, value |-> msg]

\* ToMinutes(ref...) that measures days, too, on the calendar of the
\* reference time.
ToMinutesCalendarDays(tf, ref) ==
    IF tf.Unit = Days /\ Len(ref) > 0
    THEN LET startOfDay == StartOfDay(ref[1])
         IN  Sub(AddDate(startOfDay, 0, 0, tf.Value), startOfDay) \div 60
    ELSE ToMinutes(tf)

\* ToMinutes(ref...) that never reads the reference time.
ToMinutesApproximate(tf, ref) == ToMinutes(tf)

\* Timeframe.ToMinutes(ref...): ref is the sequence of the reference times
\* given, of which the first counts.
ToMinutesRef(tf, ref) ==
    IF tf.Unit = Months /\ Len(ref) > 0
    THEN CHOOSE minutes \in
             { LET endTime == AddDate(startOfMonth, 0, tf.Value, 0)
               IN  Sub(endTime, startOfMonth) \div 60 :
               startOfMonth \in { StartOfMonth(ref[1]) } } : TRUE
    ELSE IF tf.Unit = Years /\ Len(ref) > 0
    THEN CHOOSE minutes \in
             { LET endTime == AddDate(startOfYear, tf.Value, 0, 0)
               IN  Sub(endTime, startOfYear) \div 60 :
               startOfYear \in { StartOfYear(ref[1]) } } : TRUE
    ELSE ToMinutes(tf)

\* Timeframe.InLocation(tm)
InLocation(tf, tm) == In(tm, IF tf.Location = Nil THEN UTC ELSE tf.Location)

\* Timeframe.IsValidCandleOpenTime(openTime).  The remainder of a division
\* by zero is a run-time panic; it is taken only when the conditions before
\* it in the same && chain hold.
IsValidCandleOpenTime(tf, openTime) ==
    LET localTime == InLocation(tf, openTime)
        loc == IF tf.Location = Nil THEN UTC ELSE tf.Location
    IN  IF tf.Unit = Minutes
        THEN LET day == Date(Year(localTime), Month(localTime), Day(localTime), 0, 0, 0, loc)
                 minuteOfDay == Sub(localTime, day) \div 60
             IN  IF tf.Value = 0 THEN Panic("integer divide by zero")
                 ELSE Return(minuteOfDay % tf.Value = 0)
        ELSE IF tf.Unit = Hours /\ Minute(localTime) = 0
        THEN IF tf.Value = 0 THEN Panic("integer divide by zero")
             ELSE Return(Hour(localTime) % tf.Value = 0)
        ELSE IF tf.Unit = Days /\ Minute(localTime) = 0 /\ Hour(localTime) = 0
        THEN IF tf.Value = 0 THEN Panic("integer divide by zero")
             ELSE Return((YearDay(localTime) - 1) % tf.Value = 0)
        ELSE IF tf.Unit = Weeks
        THEN Return(Minute(localTime) = 0 /\ Hour(localTime) = 0 /\ Weekday(localTime) = 1)
        ELSE IF tf.Unit = Months
        THEN Return(Minute(localTime) = 0 /\ Hour(localTime) = 0 /\ Day(localTime) = 1)
        ELSE IF tf.Unit = Years
        THEN Return(/\ Minute(localTime) = 0 /\ Hour(localTime) = 0
                    /\ Day(localTime) = 1 /\ Month(localTime) = 1)
        ELSE Return(FALSE)

\* Timeframe.LastOpen(openTime)
LastOpen(tf, openTime) ==
    LET localTime == InLocation(tf, openTime)
    IN  IF tf.Unit = Minutes
        THEN CHOOSE result \in
                 { LET delta == ToMinutes(tf) % 60
                   IN  IF delta = 0 THEN Panic("integer divide by zero")
                       ELSE LET distance == (Minute(startOfMinute) % delta) * (-1)
                            IN  Return(Add(startOfMinute, distance * 60)) :
                   startOfMinute \in { StartOfMinute(localTime) } } : TRUE
        ELSE IF tf.Unit = Hours
        THEN CHOOSE result \in
                 { IF tf.Value = 0 THEN Panic("integer divide by zero")
                   ELSE LET distance == (Hour(startOfHour) % tf.Value) * (-1)
                        IN  Return(Add(startOfHour, distance * 3600)) :
                   startOfHour \in { StartOfHour(localTime) } } : TRUE
        ELSE IF tf.Unit = Days THEN Return(StartOfDay(localTime))
        ELSE IF tf.Unit = Weeks THEN Return(StartOfWeek(localTime))
        ELSE IF tf.Unit = Months THEN Return(StartOfMonth(localTime))
        ELSE IF tf.Unit = Years THEN Return(StartOfYear(localTime))
        ELSE Return(localTime)

\* One period after the boundary lastOpen: calendar months or years for the
\* units M and Y, ToMinutes() minutes for the others.
OnePeriodAfter(tf, lastOpen) ==
    IF tf.Unit = Months THEN AddDate(lastOpen, 0, tf.Value, 0)
    ELSE IF tf.Unit = Years THEN AddDate(lastOpen, tf.Value, 0, 0)
    ELSE Add(lastOpen, ToMinutes(tf) * 60)

\* Timeframe.NextOpen(openTime)
NextOpen(tf, openTime) ==
    CHOOSE result \in
        { IF lastOpen.panicked THEN lastOpen
          ELSE IF Equal(lastOpen.value, openTime) THEN Return(openTime)
          ELSE Return(OnePeriodAfter(tf, lastOpen.value)) :
          lastOpen \in { LastOpen(tf, openTime) } } : TRUE

\* closeTime(t) computed as nextOpen(lastOpen(t)).
CloseTimeByNextOpen(tf, openTime) ==
    CHOOSE result \in
        { IF lastOpen.panicked THEN lastOpen ELSE NextOpen(tf, lastOpen.value) :
          lastOpen \in { LastOpen(tf, openTime) } } : TRUE

\* Timeframe.CloseTime(openTime)
CloseTime(tf, openTime) ==
    CHOOSE result \in
        { IF lastOpen.panicked THEN lastOpen
          ELSE Return(OnePeriodAfter(tf, lastOpen.value)) :
          lastOpen \in { LastOpen(tf, openTime) } } : TRUE

\* -------------------------------------------------------------- history

RECURSIVE TimesBag(_)
TimesBag(result) ==
    IF Len(result) = 0 THEN EmptyBag
    ELSE SetToBag({result[1].c.OpenTime}) (+) TimesBag(Tail(result))

RealOf(result) == { result[i].c : i \in { j \in 1..Len(result) : ~result[j].gap } }

\* The submitted candle of greatest OpenTime among m (or Nil) and those of result.
NewMaxReal(m, result) ==
    LET cands == RealOf(result) \cup (IF m = Nil THEN {} ELSE {m})
    IN  IF cands = {} THEN Nil
        ELSE IF m # Nil /\ \A r \in cands : r.OpenTime <= m.OpenTime THEN m
        ELSE CHOOSE r \in RealOf(result) : \A q \in cands : q.OpenTime <= r.OpenTime

\* A batch all of whose times lie beyond m, the greatest time submitted before.
Forward(batch, m) ==
    Len(batch) > 0 /\ \A i \in 1..Len(batch) : batch[i].OpenTime > m

\* A sorted batch whose distinct times follow m and each other by one period.
Contiguous(sorted, m, first, step) ==
    /\ first \/ (step > 0 /\ (sorted[1].OpenTime - m) % step = 0)
    /\ \A i \in 1..(Len(sorted) - 1) :
          \/ sorted[i + 1].OpenTime = sorted[i].OpenTime
          \/ sorted[i + 1].OpenTime = sorted[i].OpenTime + step

\* ---------------------------------------------------------------- actions

\* What the record of the last call holds when no batch was passed.
NoBatch ==
    /\ batchIn' = << >> /\ batchOut' = << >> /\ out' = << >> /\ freshOut' = << >>
    /\ err' = Nil

\* The caller lets go of what the last call gave it; the sanitizer's
\* pointers stay.
Release ==
    /\ firstAt' = Released(firstAt) /\ lastAt' = Released(lastAt) /\ gotAt' = NilAt

\* The pointers of a sanitizer that holds no candle.
NilPointers ==
    /\ firstAt' = NilAt /\ lastAt' = NilAt /\ gotAt' = NilAt

\* The history of a sanitizer that has returned nothing yet.
NoHistory ==
    /\ hist' = EmptyBag /\ maxReal' = Nil
    /\ fwd' = TRUE /\ contig' = TRUE /\ maxIn' = -1

Init ==
    /\ timeframe \in Timeframes
    /\ firstCandle = NewOHLCVSanitizer(timeframe).firstCandle
    /\ lastCandle = NewOHLCVSanitizer(timeframe).lastCandle
    /\ initialized = NewOHLCVSanitizer(timeframe).initialized
    /\ pc = "returned"
    /\ op = "NewOHLCVSanitizer"
    /\ pre = NewOHLCVSanitizer(timeframe)
    /\ batchIn = << >> /\ batchOut = << >> /\ out = << >> /\ freshOut = << >>
    /\ err = Nil
    /\ tfIn = timeframe
    /\ got = Nil
    /\ hist = EmptyBag /\ maxReal = Nil
    /\ fwd = TRUE /\ contig = TRUE /\ maxIn = -1
    /\ wasReset = FALSE
    /\ fresh = NewOHLCVSanitizer(timeframe)
    /\ firstAt = NilAt /\ lastAt = NilAt /\ gotAt = NilAt
    /\ strIn = << >> /\ parsed = Nil
    /\ tfOn = Nil /\ timeIn = Nil /\ timeOut = Nil

\* SanitizeBatch(batch) with len(batch) == 0: returns batch, nil.
SanitizeBatchEmpty ==
    /\ pc = "ready"
    /\ LET r == SanitizeBatch(Self, << >>)
           f == SanitizeBatch(fresh, << >>)
       IN  /\ out' = r.result
           /\ err' = r.err
           /\ firstCandle' = r.s.firstCandle
           /\ lastCandle' = r.s.lastCandle
           /\ initialized' = r.s.initialized
           /\ timeframe' = r.s.timeframe
           /\ freshOut' = f.result
           /\ fresh' = f.s
    /\ pc' = "returned"
    /\ op' = "SanitizeBatch"
    /\ pre' = Self
    /\ batchIn' = << >>
    /\ batchOut' = << >>
    /\ tfIn' = Nil
    /\ got' = Nil
    /\ fwd' = FALSE /\ contig' = FALSE /\ maxIn' = -1
    /\ gotAt' = NilAt
    /\ UNCHANGED << firstAt, lastAt >>
    /\ UNCHANGED << hist, maxReal, wasReset >>
    /\ UNCHANGED << strIn, parsed, tfOn, timeIn, timeOut >>

\* SanitizeBatch(batch) with a non-empty batch, when every loop ends.
SanitizeBatchOf(batches) ==
    /\ \E batch \in batches : \E sorted \in SortOutcomes(batch) :
        /\ Len(batch) > 0
        /\ ~WalkDiverges(Self, sorted)
        /\ LET r == SanitizeBatch(Self, sorted)
               f == SanitizeBatch(fresh, sorted)
               isFwd == fwd /\ Forward(batch, maxIn)
               isContig == isFwd /\ contig
                            /\ Contiguous(sorted, maxIn, maxIn = -1,
                                          CandleDurationSeconds(Self))
           IN  /\ batchIn' = batch
               /\ batchOut' = sorted
               /\ out' = r.result
               /\ err' = r.err
               /\ firstCandle' = r.s.firstCandle
               /\ lastCandle' = r.s.lastCandle
               /\ initialized' = r.s.initialized
               /\ timeframe' = r.s.timeframe
               /\ hist' = hist (+) TimesBag(r.result)
               /\ maxReal' = NewMaxReal(maxReal, r.result)
               /\ fwd' = isFwd
               /\ contig' = isContig
               /\ maxIn' = IF isFwd THEN sorted[Len(sorted)].OpenTime ELSE -1
               /\ freshOut' = f.result
               /\ fresh' = f.s
               /\ firstAt' = IF Len(r.result) = 0 THEN firstAt
                              ELSE UpdateFirstAt(Self, firstAt, r.result)
               /\ lastAt' = IF Len(r.result) = 0 THEN lastAt
                             ELSE UpdateLastAt(Self, lastAt, r.result)
               /\ gotAt' = NilAt
    /\ pc' = "returned"
    /\ op' = "SanitizeBatch"
    /\ pre' = Self
    /\ tfIn' = Nil
    /\ got' = Nil
    /\ UNCHANGED wasReset
    /\ UNCHANGED << strIn, parsed, tfOn, timeIn, timeOut >>

SanitizeBatchCall ==
    /\ pc = "ready"
    /\ SanitizeBatchOf(Batches)

\* SanitizeBatch(batch) when the gap loop is entered with a step that is not
\* positive: the batch has been sorted, the loop appends without end, and the
\* call never returns.
SanitizeBatchDiverge ==
    /\ pc = "ready"
    /\ initialized
    /\ CandleDurationSeconds(Self) <= 0
    /\ \E batch \in Batches : \E sorted \in SortOutcomes(batch) :
        /\ Len(batch) > 0
        /\ WalkDiverges(Self, sorted)
        /\ batchIn' = batch
        /\ batchOut' = sorted
    /\ pc' = "diverged"
    /\ op' = "SanitizeBatch"
    /\ pre' = Self
    /\ out' = << >>
    /\ freshOut' = << >>
    /\ err' = Nil
    /\ tfIn' = Nil
    /\ got' = Nil
    /\ gotAt' = NilAt
    /\ UNCHANGED << timeframe, firstCandle, lastCandle, initialized, hist,
                    maxReal, fwd, contig, maxIn, wasReset, fresh, firstAt, lastAt >>
    /\ UNCHANGED << strIn, parsed, tfOn, timeIn, timeOut >>

\* Reset()
ResetCall ==
    /\ pc = "ready"
    /\ pc' = "returned"
    /\ op' = "Reset"
    /\ pre' = Self
    /\ firstCandle' = Reset(Self).firstCandle
    /\ lastCandle' = Reset(Self).lastCandle
    /\ initialized' = Reset(Self).initialized
    /\ timeframe' = Reset(Self).timeframe
    /\ NoBatch
    /\ tfIn' = Nil
    /\ got' = Nil
    /\ NoHistory
    /\ wasReset' = TRUE
    /\ fresh' = NewOHLCVSanitizer(timeframe)
    /\ NilPointers
    /\ UNCHANGED << strIn, parsed, tfOn, timeIn, timeOut >>

\* SetTimeframe(tf)
SetTimeframeCall ==
    /\ pc = "ready"
    /\ \E tf \in Timeframes :
        /\ firstCandle' = SetTimeframe(Self, tf).firstCandle
        /\ lastCandle' = SetTimeframe(Self, tf).lastCandle
        /\ initialized' = SetTimeframe(Self, tf).initialized
        /\ timeframe' = SetTimeframe(Self, tf).timeframe
        /\ tfIn' = tf
        /\ fresh' = NewOHLCVSanitizer(tf)
    /\ pc' = "returned"
    /\ op' = "SetTimeframe"
    /\ pre' = Self
    /\ NoBatch
    /\ got' = Nil
    /\ NoHistory
    /\ wasReset' = FALSE
    /\ NilPointers
    /\ UNCHANGED << strIn, parsed, tfOn, timeIn, timeOut >>

\* GetLastCandle()
GetLastCandleCall ==
    /\ pc = "ready"
    /\ pc' = "returned"
    /\ op' = "GetLastCandle"
    /\ pre' = Self
    /\ got' = GetLastCandle(Self)
    /\ gotAt' = GetLastCandleAt(Self)
    /\ NoBatch
    /\ tfIn' = Nil
    /\ UNCHANGED << firstAt, lastAt >>
    /\ UNCHANGED << timeframe, firstCandle, lastCandle, initialized, hist,
                    maxReal, fwd, contig, maxIn, wasReset, fresh >>
    /\ UNCHANGED << strIn, parsed, tfOn, timeIn, timeOut >>

\* ValidateBatch(batch)
ValidateBatchOn(batch) ==
    /\ pc = "ready"
    /\ LET r == ValidateBatch(Self, batch)
       IN  /\ err' = r.err
           /\ batchOut' = r.batch
           /\ firstCandle' = r.s.firstCandle
           /\ lastCandle' = r.s.lastCandle
           /\ initialized' = r.s.initialized
           /\ timeframe' = r.s.timeframe
    /\ batchIn' = batch
    /\ pc' = "returned"
    /\ op' = "ValidateBatch"
    /\ pre' = Self
    /\ out' = << >> /\ freshOut' = << >>
    /\ tfIn' = Nil
    /\ got' = Nil
    /\ gotAt' = NilAt
    /\ UNCHANGED << hist, maxReal, fwd, contig, maxIn, wasReset, fresh, firstAt, lastAt >>
    /\ UNCHANGED << strIn, parsed, tfOn, timeIn, timeOut >>

ValidateBatchCall == \E batch \in ValidatedInUse : ValidateBatchOn(batch)

\* The variables the caller holds after the last call: the elements of its
\* batch, those of the returned slice, and what GetLastCandle returned.
CallerCells ==
    { Cell("batch", i) : i \in DOMAIN batchOut } \cup { Cell("result", i) : i \in DOMAIN out }
        \cup (IF got = Nil THEN {} ELSE { gotAt })

\* Between two calls the caller writes to every record it holds.  A write
\* reaches a candle of the sanitizer when the sanitizer points to that record.
CallerWrites ==
    /\ pc = "returned"
    /\ op \in {"SanitizeBatch", "GetLastCandle"}
    /\ CallerCells # {}
    /\ firstCandle' = IF firstAt \in CallerCells THEN Written(firstCandle) ELSE firstCandle
    /\ lastCandle' = IF lastAt \in CallerCells THEN Written(lastCandle) ELSE lastCandle
    /\ pc' = "returned"
    /\ op' = "CallerWrites"
    /\ pre' = Self
    /\ NoBatch
    /\ tfIn' = Nil
    /\ got' = Nil
    /\ Release
    /\ UNCHANGED << timeframe, initialized, hist, maxReal, fwd, contig, maxIn,
                    wasReset, fresh >>
    /\ UNCHANGED << strIn, parsed, tfOn, timeIn, timeOut >>

\* The caller has taken what the call returned and goes on to its next call.
Resume ==
    /\ pc = "returned"
    /\ pc' = "ready"
    /\ op' = "none"
    /\ pre' = Self
    /\ NoBatch
    /\ tfIn' = Nil
    /\ got' = Nil
    /\ Release
    /\ UNCHANGED << timeframe, firstCandle, lastCandle, initialized, hist,
                    maxReal, fwd, contig, maxIn, wasReset, fresh >>
    /\ UNCHANGED << strIn, parsed, tfOn, timeIn, timeOut >>

Next ==
    \/ SanitizeBatchEmpty
    \/ SanitizeBatchCall
    \/ SanitizeBatchDiverge
    \/ ResetCall
    \/ SetTimeframeCall
    \/ GetLastCandleCall
    \/ ValidateBatchCall
    \/ CallerWrites
    \/ Resume

Spec == Init /\ [][Next]_vars

\* --------------------------------------- ValidateBatch as a pure function
\* A new one-minute sanitizer about to validate a batch drawn from
\* ValidatedBatches.

InitValidate ==
    /\ timeframe = NewTimeframe(1, Minutes)
    /\ firstCandle = NewOHLCVSanitizer(timeframe).firstCandle
    /\ lastCandle = NewOHLCVSanitizer(timeframe).lastCandle
    /\ initialized = NewOHLCVSanitizer(timeframe).initialized
    /\ pc = "ready"
    /\ op = "none"
    /\ pre = NewOHLCVSanitizer(timeframe)
    /\ batchIn \in ValidatedBatches
    /\ batchOut = << >> /\ out = << >> /\ freshOut = << >>
    /\ err = Nil
    /\ tfIn = Nil
    /\ got = Nil
    /\ hist = EmptyBag /\ maxReal = Nil
    /\ fwd = TRUE /\ contig = TRUE /\ maxIn = -1
    /\ wasReset = FALSE
    /\ fresh = NewOHLCVSanitizer(timeframe)
    /\ firstAt = NilAt /\ lastAt = NilAt /\ gotAt = NilAt
    /\ strIn = << >> /\ parsed = Nil
    /\ tfOn = Nil /\ timeIn = Nil /\ timeOut = Nil

ValidateGiven == ValidateBatchOn(batchIn)

NextValidate == ValidateGiven

ValidateSpec == InitValidate /\ [][NextValidate]_vars

\* --------------------------------- TimeframeFromString as a pure function
\* A text of at most MaxPieces pieces is parsed; no sanitizer is in use.

InitParse ==
    /\ timeframe = NewTimeframe(1, Minutes)
    /\ firstCandle = NewOHLCVSanitizer(timeframe).firstCandle
    /\ lastCandle = NewOHLCVSanitizer(timeframe).lastCandle
    /\ initialized = NewOHLCVSanitizer(timeframe).initialized
    /\ pc = "ready"
    /\ op = "none"
    /\ pre = NewOHLCVSanitizer(timeframe)
    /\ batchIn = << >> /\ batchOut = << >> /\ out = << >> /\ freshOut = << >>
    /\ err = Nil
    /\ tfIn = Nil
    /\ got = Nil
    /\ hist = EmptyBag /\ maxReal = Nil
    /\ fwd = TRUE /\ contig = TRUE /\ maxIn = -1
    /\ wasReset = FALSE
    /\ fresh = NewOHLCVSanitizer(timeframe)
    /\ firstAt = NilAt /\ lastAt = NilAt /\ gotAt = NilAt
    /\ strIn \in Texts(MaxPieces)
    /\ parsed = Nil
    /\ tfOn = Nil /\ timeIn = Nil /\ timeOut = Nil

\* TimeframeFromString(strIn)
TimeframeFromStringCall ==
    /\ pc = "ready"
    /\ parsed' = TimeframeFromString(strIn)
    /\ pc' = "returned"
    /\ op' = "TimeframeFromString"
    /\ UNCHANGED << timeframe, firstCandle, lastCandle, initialized, pre, batchIn, tfIn,
                    batchOut, out, err, got, hist, maxReal, fwd, contig, maxIn, wasReset,
                    fresh, freshOut, firstAt, lastAt, gotAt, strIn, tfOn, timeIn, timeOut >>

NextParse == TimeframeFromStringCall

ParseSpec == InitParse /\ [][NextParse]_vars

\* ------------------------------------------- Timeframe to text and back
\* Timeframes are formatted and the text is parsed; texts are parsed, the
\* Timeframe is formatted and the text is parsed again.

\* The Timeframes that are formatted: values of one to four digits, the six
\* units and one that is none, no location, three zones of the zone database
\* and a location whose name is in no database.
TimeframesToFormat ==
    { Timeframe(v, u, l) :
        v \in { 0, 5, 10, 105, 1200 },
        u \in { Minutes, Hours, Days, Weeks, Months, Years, "x" },
        l \in { Nil, UTC, Tokyo, NewYork, Mars } }

InitRoundTrip ==
    /\ timeframe = NewTimeframe(1, Minutes)
    /\ firstCandle = NewOHLCVSanitizer(timeframe).firstCandle
    /\ lastCandle = NewOHLCVSanitizer(timeframe).lastCandle
    /\ initialized = NewOHLCVSanitizer(timeframe).initialized
    /\ pc = "ready"
    /\ op = "none"
    /\ pre = NewOHLCVSanitizer(timeframe)
    /\ batchIn = << >> /\ batchOut = << >> /\ out = << >> /\ freshOut = << >>
    /\ err = Nil
    /\ tfIn = Nil
    /\ got = Nil
    /\ hist = EmptyBag /\ maxReal = Nil
    /\ fwd = TRUE /\ contig = TRUE /\ maxIn = -1
    /\ wasReset = FALSE
    /\ fresh = NewOHLCVSanitizer(timeframe)
    /\ firstAt = NilAt /\ lastAt = NilAt /\ gotAt = NilAt
    /\ \/ tfOn \in TimeframesToFormat /\ strIn = << >>
       \/ tfOn = Nil /\ strIn \in Texts(MaxPieces)
    /\ parsed = Nil
    /\ timeIn = Nil /\ timeOut = Nil

\* The formatter name of tfOn returns text.
Formatted(name, text) ==
    /\ strIn' = text
    /\ pc' = "formatted"
    /\ op' = name
    /\ UNCHANGED << timeframe, firstCandle, lastCandle, initialized, pre, batchIn, tfIn,
                    batchOut, out, err, got, hist, maxReal, fwd, contig, maxIn, wasReset,
                    fresh, freshOut, firstAt, lastAt, gotAt, parsed, tfOn, timeIn, timeOut >>

\* tfOn.String()
StringCall ==
    /\ pc = "ready" /\ tfOn # Nil
    /\ Formatted("String", String(tfOn))

\* tfOn.StringWithLocation()
StringWithLocationCall ==
    /\ pc = "ready" /\ tfOn # Nil
    /\ Formatted("StringWithLocation", StringWithLocation(tfOn))

\* TimeframeFromString(strIn) on the text a formatter has returned.
ParseFormatted ==
    /\ pc = "formatted"
    /\ parsed' = TimeframeFromString(strIn)
    /\ pc' = "returned"
    /\ UNCHANGED << timeframe, firstCandle, lastCandle, initialized, pre, batchIn, tfIn,
                    batchOut, out, err, got, hist, maxReal, fwd, contig, maxIn, wasReset,
                    fresh, freshOut, firstAt, lastAt, gotAt, strIn, tfOn, timeIn, timeOut,
                    op >>

\* TimeframeFromString(strIn) of a text.
ParseText ==
    /\ tfOn = Nil
    /\ TimeframeFromStringCall

\* TimeframeFromString(tf.StringWithLocation()) for the Timeframe tf that
\* TimeframeFromString(strIn) has returned.
FormatParsedAndParse ==
    /\ pc = "returned" /\ op = "TimeframeFromString"
    /\ parsed.err = Nil
    /\ tfOn' = parsed.tf
    /\ parsed' = TimeframeFromString(StringWithLocation(parsed.tf))
    /\ op' = "StringWithLocation of parsed"
    /\ UNCHANGED << timeframe, firstCandle, lastCandle, initialized, pre, batchIn, tfIn,
                    batchOut, out, err, got, hist, maxReal, fwd, contig, maxIn, wasReset,
                    fresh, freshOut, firstAt, lastAt, gotAt, strIn, timeIn, timeOut, pc >>

NextRoundTrip ==
    \/ StringCall
    \/ StringWithLocationCall
    \/ ParseFormatted
    \/ ParseText
    \/ FormatParsedAndParse

RoundTripSpec == InitRoundTrip /\ [][NextRoundTrip]_vars

\* ------------------------------------- the Timeframe methods as pure functions
\* One method of one Timeframe is called on one time; no sanitizer is in use.

\* The zones of the Timeframes: none, UTC, one of a fixed offset and one with
\* daylight saving time.
Zones == { Nil, UTC, Tokyo, NewYork }

\* The values and units of the Timeframes: values that divide the hour or
\* the day and values that do not, the hour itself and its multiples, zero.
ValuesAndUnits ==
    ({ 0, 5, 7, 60, 90, 120 } \X { Minutes })
        \cup ({ 0, 4, 5, 24 } \X { Hours })
        \cup ({ 0, 1, 2 } \X { Days })
        \cup ({ 1 } \X { Weeks })
        \cup ({ 1, 2 } \X { Months })
        \cup ({ 1 } \X { Years })

TimeframesOn == { Timeframe(vu[1], vu[2], l) : vu \in ValuesAndUnits, l \in Zones }

\* The instants the methods are called on: the first instant of a year (a
\* Monday), times with seconds, the leap day, the hours around the start and
\* the end of daylight saving time in New York, a Sunday, the first Monday
\* midnight of New York after the change, the last second of a year, and a
\* day of the 28-day February of a common year.
Instants ==
    { Date(2024, 1, 1, 0, 0, 0, UTC).unix,
      Date(2024, 1, 1, 0, 5, 30, UTC).unix,
      Date(2024, 1, 1, 4, 0, 30, UTC).unix,
      Date(2024, 1, 2, 0, 0, 0, UTC).unix,
      Date(2024, 2, 29, 1, 0, 0, UTC).unix,
      Date(2024, 2, 29, 12, 34, 56, UTC).unix,
      Date(2024, 3, 10, 6, 30, 0, UTC).unix,
      Date(2024, 3, 10, 7, 30, 0, UTC).unix,
      Date(2024, 3, 10, 12, 0, 0, UTC).unix,
      Date(2024, 3, 11, 4, 0, 0, UTC).unix,
      Date(2024, 11, 3, 6, 30, 0, UTC).unix,
      Date(2024, 11, 4, 4, 30, 0, UTC).unix,
      Date(2024, 12, 31, 23, 59, 59, UTC).unix,
      Date(2025, 2, 14, 9, 0, 0, UTC).unix }

TimesIn == { Time(u, l) : u \in Instants, l \in { UTC, NewYork } }

InitTime ==
    /\ timeframe = NewTimeframe(1, Minutes)
    /\ firstCandle = NewOHLCVSanitizer(timeframe).firstCandle
    /\ lastCandle = NewOHLCVSanitizer(timeframe).lastCandle
    /\ initialized = NewOHLCVSanitizer(timeframe).initialized
    /\ pc = "ready"
    /\ op = "none"
    /\ pre = NewOHLCVSanitizer(timeframe)
    /\ batchIn = << >> /\ batchOut = << >> /\ out = << >> /\ freshOut = << >>
    /\ err = Nil
    /\ tfIn = Nil
    /\ got = Nil
    /\ hist = EmptyBag /\ maxReal = Nil
    /\ fwd = TRUE /\ contig = TRUE /\ maxIn = -1
    /\ wasReset = FALSE
    /\ fresh = NewOHLCVSanitizer(timeframe)
    /\ firstAt = NilAt /\ lastAt = NilAt /\ gotAt = NilAt
    /\ strIn = << >> /\ parsed = Nil
    /\ tfOn \in TimeframesOn
    /\ timeIn \in TimesIn
    /\ timeOut = Nil

\* The method name of tfOn comes to result.
MethodCall(name, result) ==
    /\ timeOut' = result
    /\ pc' = "returned"
    /\ op' = name
    /\ UNCHANGED << timeframe, firstCandle, lastCandle, initialized, pre, batchIn, tfIn,
                    batchOut, out, err, got, hist, maxReal, fwd, contig, maxIn, wasReset,
                    fresh, freshOut, firstAt, lastAt, gotAt, strIn, parsed, tfOn, timeIn >>

\* tfOn.ToMinutes()
ToMinutesCall ==
    /\ pc = "ready"
    /\ MethodCall("ToMinutes", Return(ToMinutesRef(tfOn, << >>)))

\* tfOn.ToMinutes(timeIn)
ToMinutesRefCall ==
    /\ pc = "ready"
    /\ MethodCall("ToMinutesRef", Return(ToMinutesRef(tfOn, << timeIn >>)))

\* tfOn.LastOpen(timeIn)
LastOpenCall ==
    /\ pc = "ready"
    /\ MethodCall("LastOpen", LastOpen(tfOn, timeIn))

\* tfOn.NextOpen(timeIn)
NextOpenCall ==
    /\ pc = "ready"
    /\ MethodCall("NextOpen", NextOpen(tfOn, timeIn))

\* tfOn.CloseTime(timeIn)
CloseTimeCall ==
    /\ pc = "ready"
    /\ MethodCall("CloseTime", CloseTime(tfOn, timeIn))

\* tfOn.IsValidCandleOpenTime(timeIn)
IsValidCandleOpenTimeCall ==
    /\ pc = "ready"
    /\ MethodCall("IsValidCandleOpenTime", IsValidCandleOpenTime(tfOn, timeIn))

NextTime ==
    \/ ToMinutesCall
    \/ ToMinutesRefCall
    \/ LastOpenCall
    \/ NextOpenCall
    \/ CloseTimeCall
    \/ IsValidCandleOpenTimeCall

TimeSpec == InitTime /\ [][NextTime]_vars

\* ------------------------------------- the sanitizer on months and years
\* A sanitizer of a month or year timeframe is given candles that open on
\* the first of a month.

CalendarTimeframes ==
    { NewTimeframe(1, Months), NewTimeframe(2, Months), NewTimeframe(1, Years) }

\* Open times on the first of a month, UTC; 2024 is a leap year.
CalendarOpenTimes ==
    { Date(2024, 1, 1, 0, 0, 0, UTC).unix,
      Date(2024, 2, 1, 0, 0, 0, UTC).unix,
      Date(2024, 4, 1, 0, 0, 0, UTC).unix,
      Date(2026, 1, 1, 0, 0, 0, UTC).unix }

CalendarCandles ==
    { OHLCVRecord(t, "100.0", "102.0", "99.0", "100.5", "1000") : t \in CalendarOpenTimes }

\* The batches of at most max such candles, in any order.
CalendarBatches(max) == UNION { [1..n -> CalendarCandles] : n \in 1..max }

InitCalendar ==
    /\ timeframe \in CalendarTimeframes
    /\ firstCandle = NewOHLCVSanitizer(timeframe).firstCandle
    /\ lastCandle = NewOHLCVSanitizer(timeframe).lastCandle
    /\ initialized = NewOHLCVSanitizer(timeframe).initialized
    /\ pc = "returned"
    /\ op = "NewOHLCVSanitizer"
    /\ pre = NewOHLCVSanitizer(timeframe)
    /\ batchIn = << >> /\ batchOut = << >> /\ out = << >> /\ freshOut = << >>
    /\ err = Nil
    /\ tfIn = timeframe
    /\ got = Nil
    /\ hist = EmptyBag /\ maxReal = Nil
    /\ fwd = TRUE /\ contig = TRUE /\ maxIn = -1
    /\ wasReset = FALSE
    /\ fresh = NewOHLCVSanitizer(timeframe)
    /\ firstAt = NilAt /\ lastAt = NilAt /\ gotAt = NilAt
    /\ strIn = << >> /\ parsed = Nil
    /\ tfOn = Nil /\ timeIn = Nil /\ timeOut = Nil

\* SanitizeBatch(batch) on a batch of such candles
SanitizeBatchCalendar ==
    /\ pc = "ready"
    /\ SanitizeBatchOf(CalendarBatches(MaxLen))

NextCalendar == SanitizeBatchCalendar \/ Resume

CalendarSpec == InitCalendar /\ [][NextCalendar]_vars

\* ------------------------------------------------- reading the last call

\* SanitizeBatch was the last call and it has returned.
Sanitized == pc = "returned" /\ op = "SanitizeBatch"

Period == CandleDurationSeconds(pre)

TimesOf(batch) == { batch[i].OpenTime : i \in DOMAIN batch }

RecordsOf(batch) == { batch[i] : i \in DOMAIN batch }

OutTimes == { out[i].c.OpenTime : i \in DOMAIN out }

Fillers == { i \in DOMAIN out : out[i].gap }

\* The already-seen range of sanitizer s.
SeenRange(s) ==
    IF s.initialized THEN s.firstCandle.OpenTime .. s.lastCandle.OpenTime ELSE {}

\* The open times of the batch of the last call outside the range seen before it.
NewTimes == TimesOf(batchIn) \ SeenRange(pre)

Least(S) == CHOOSE t \in S : \A u \in S : t <= u

Greatest(S) == CHOOSE t \in S : \A u \in S : u <= t

\* The period boundaries after time l that lie strictly before time c.
Boundaries(l, c, step) == { l + k * step : k \in 1..((c - l - 1) \div step) }

\* ------------------------------------------------------------------ claims

\* C1: over any sequence of SanitizeBatch calls with no Reset or SetTimeframe
\* in between, no openTime occurs more than once in all the returned outputs.
C1_NoOpenTimeTwice == \A t \in BagToSet(hist) : CopiesIn(t, hist) = 1

\* C1 witness: a call was given an openTime that an earlier call had returned,
\* next to a new one, and returned only the new one.
C1_Witness ==
    /\ Sanitized /\ out # << >>
    /\ \E t \in TimesOf(batchIn) : t \notin OutTimes /\ BagIn(t, hist)

\* C2 as stated: in a purely forward-advancing sequence of non-empty batches
\* the returned openTimes are exactly the arithmetic sequence of step period
\* from the first returned openTime to the last, none missing, none twice.
ArithmeticFromFirstToLast ==
    LET T == BagToSet(hist)
        step == CandleDurationSeconds(Self)
    IN  /\ \A t \in T : CopiesIn(t, hist) = 1
        /\ IF step > 0
           THEN T = { Least(T) + k * step : k \in 0..((Greatest(T) - Least(T)) \div step) }
           ELSE T = { Least(T) }

C2_ForwardCoverage == (fwd /\ hist # EmptyBag) => ArithmeticFromFirstToLast

\* C2 amended: the same, for forward-advancing sequences in which the distinct
\* openTimes inside each batch are exactly one period apart and each later
\* batch starts a whole number of periods after the one before.
C2_ForwardCoverageContiguous ==
    (fwd /\ contig /\ hist # EmptyBag) => ArithmeticFromFirstToLast

\* C2 witness: a second forward batch of two candles, one period apart, was
\* returned behind a filler.
C2_Witness ==
    /\ Sanitized /\ fwd /\ contig /\ pre.initialized
    /\ Cardinality(TimesOf(batchIn)) = 2
    /\ Fillers # {}

\* C3: Bounded with lastCandle at L, period P > 0, first retained candle at
\* C > L: the output begins with fillers at exactly L+P, L+2P, ... < C,
\* ascending, then the candle at C; no filler anywhere else; none if C <= L+P.
C3_FillersLeadTheOutput ==
    (Sanitized /\ pre.initialized /\ Period > 0 /\ NewTimes # {}
        /\ Least(NewTimes) > pre.lastCandle.OpenTime)
    => LET L == pre.lastCandle.OpenTime
           C == Least(NewTimes)
           n == (C - L - 1) \div Period
       IN  /\ Len(out) > n
           /\ \A k \in 1..n : out[k].gap /\ out[k].c.OpenTime = L + k * Period
           /\ ~out[n + 1].gap
           /\ out[n + 1].c.OpenTime = C
           /\ out[n + 1].c \in RecordsOf(batchIn)
           /\ \A j \in (n + 2)..Len(out) : ~out[j].gap
           /\ (C <= L + Period => Fillers = {})

\* C3 witness: two fillers lead the output for an unsorted batch of two
\* candles, one of them inside the range seen before.
C3_Witness ==
    /\ Sanitized /\ pre.initialized /\ Period > 0
    /\ Len(batchIn) = 2 /\ batchIn[1].OpenTime > batchIn[2].OpenTime
    /\ Len(out) = 3 /\ out[1].gap /\ out[2].gap /\ ~out[3].gap

\* C4: every filler has open = high = low = close = the close of the lastCandle
\* held when the call started and volume "0.00000000"; that lastCandle is the
\* submitted candle of greatest openTime returned so far.
C4_FillerValueLaw ==
    /\ lastCandle = maxReal
    /\ Sanitized =>
         \A i \in Fillers :
            /\ pre.lastCandle # Nil
            /\ out[i].c.Open = pre.lastCandle.Close
            /\ out[i].c.High = pre.lastCandle.Close
            /\ out[i].c.Low = pre.lastCandle.Close
            /\ out[i].c.Close = pre.lastCandle.Close
            /\ out[i].c.Volume = "0.00000000"

\* C4 witness: a filler was returned by a sanitizer whose lastCandle, with
\* the second of the two closes, is no longer its firstCandle.
C4_Witness ==
    /\ Sanitized /\ Fillers # {}
    /\ pre.lastCandle.Close = "101.0"
    /\ pre.lastCandle.OpenTime > pre.firstCandle.OpenTime

\* The first two parts of C5: every record returned in the Bounded state lies
\* strictly before firstCandle or strictly after lastCandle, both as at the
\* start of the call; an input candle inside that range is never returned.
OutsideSeenRange ==
    /\ \A i \in DOMAIN out : out[i].c.OpenTime \notin SeenRange(pre)
    /\ \A i \in DOMAIN batchIn :
          batchIn[i].OpenTime \in SeenRange(pre) => batchIn[i].OpenTime \notin OutTimes

\* The batch of the last call overlaps the range seen before it and extends
\* past its end.
OverlapsAndExtends ==
    /\ TimesOf(batchIn) \cap SeenRange(pre) # {}
    /\ \E t \in TimesOf(batchIn) : t > pre.lastCandle.OpenTime

\* The fillers returned are those from lastCandle to the first candle beyond it.
FillersFromLastCandle ==
    LET L == pre.lastCandle.OpenTime
        C == Least({ t \in TimesOf(batchIn) : t > L })
    IN  { out[i].c.OpenTime : i \in Fillers } = Boundaries(L, C, Period)

\* C5 as stated: ... and when a batch overlaps the range and extends past it
\* the fillers are computed from lastCandle to the first candle beyond the range.
C5_OutsideRangeAndFilled ==
    (Sanitized /\ pre.initialized)
    => /\ OutsideSeenRange
       /\ (OverlapsAndExtends /\ Period > 0) => FillersFromLastCandle

\* C5 amended: ... when a batch overlaps the range and extends past it and
\* holds no candle older than firstCandle, the fillers are computed from
\* lastCandle to the first candle beyond the range.
C5_OutsideRangeAndFilledForward ==
    (Sanitized /\ pre.initialized)
    => /\ OutsideSeenRange
       /\ (OverlapsAndExtends /\ Period > 0
            /\ \A t \in TimesOf(batchIn) : t >= pre.firstCandle.OpenTime)
          => FillersFromLastCandle

\* C5 witness: a batch with a candle inside the range and one two periods
\* beyond it was answered with a filler and the candle beyond.
C5_Witness ==
    /\ Sanitized /\ pre.initialized /\ Period > 0
    /\ OverlapsAndExtends
    /\ Len(out) = 2 /\ out[1].gap /\ ~out[2].gap

\* C6: Bounded and every openTime of the batch below firstCandle: the output
\* is the batch sorted ascending with each repeated openTime collapsed to one
\* record, and holds no synthesized candle.
C6_BackwardBatchNotFilled ==
    (Sanitized /\ pre.initialized /\ batchIn # << >>
        /\ \A t \in TimesOf(batchIn) : t < pre.firstCandle.OpenTime)
    => /\ Fillers = {}
       /\ Len(out) = Cardinality(TimesOf(batchIn))
       /\ OutTimes = TimesOf(batchIn)
       /\ \A i \in DOMAIN out : out[i].c \in RecordsOf(batchIn)
       /\ \A i \in 1..(Len(out) - 1) : out[i].c.OpenTime < out[i + 1].c.OpenTime

\* C6 witness: an unsorted batch older than firstCandle, with a hole of one
\* period in it, was returned sorted and unfilled.
C6_Witness ==
    /\ Sanitized /\ pre.initialized /\ Period > 0
    /\ Len(batchIn) = 2 /\ Len(out) = 2
    /\ batchIn[1].OpenTime > batchIn[2].OpenTime + Period
    /\ batchIn[1].OpenTime < pre.firstCandle.OpenTime

\* C7: after Reset(), GetLastCandle() returns nothing, and every following
\* SanitizeBatch returns what a newly constructed sanitizer with the same
\* timeframe returns for the same batches, and leaves the same state.
C7_ResetIsNew ==
    /\ (pc = "returned" /\ op = "Reset") => GetLastCandle(Self) = Nil
    /\ (op = "GetLastCandle" /\ hist = EmptyBag) => got = Nil
    /\ wasReset => (Self = fresh /\ out = freshOut)

\* C7 witness: a sanitizer that was reset in a Bounded state has since
\* returned two batches, the second with a filler.
C7_Witness ==
    /\ wasReset /\ Sanitized /\ pre.initialized /\ Fillers # {}

\* C8: the sanitizer starts Empty; a non-empty batch in the Empty state
\* returns a non-empty output and leaves it Bounded; SanitizeBatch never takes
\* a Bounded sanitizer back to Empty; Reset() and SetTimeframe(tf) leave it
\* Empty, SetTimeframe having installed tf, which later calls keep.
C8_StateMachine ==
    /\ op = "NewOHLCVSanitizer" => ~initialized
    /\ (Sanitized /\ ~pre.initialized /\ batchIn # << >>) => (out # << >> /\ initialized)
    /\ (Sanitized /\ pre.initialized) => initialized
    /\ (pc = "returned" /\ op \in {"Reset", "SetTimeframe"}) => ~initialized
    /\ (pc = "returned" /\ op = "SetTimeframe") => timeframe = tfIn
    /\ (op \notin {"SetTimeframe", "NewOHLCVSanitizer"}) => timeframe = pre.timeframe

\* C8 witness: SetTimeframe with another timeframe emptied a Bounded sanitizer.
C8_Witness ==
    /\ pc = "returned" /\ op = "SetTimeframe"
    /\ pre.initialized /\ tfIn # pre.timeframe

\* C9: SanitizeBatch with an empty batch returns an empty output and no error
\* and leaves firstCandle, lastCandle, initialized and the timeframe as they
\* were, in the Empty state and in every Bounded state.
C9_EmptyBatchNoChange ==
    (Sanitized /\ batchIn = << >>)
    => /\ out = << >>
       /\ err = Nil
       /\ Self = pre

\* C9 witness: an empty batch was passed to a Bounded sanitizer.
C9_Witness == Sanitized /\ batchIn = << >> /\ pre.initialized

\* C10: every record returned is equal in all fields to a record of the batch
\* of this call or is a filler synthesized in this call; nothing an earlier
\* call returned is returned again; each distinct openTime of the batch
\* outside the already-seen range is returned exactly once.
C10_OnlyThisCall ==
    Sanitized =>
        /\ \A i \in DOMAIN out :
              \/ ~out[i].gap /\ out[i].c \in RecordsOf(batchIn)
              \/ /\ out[i].gap /\ pre.initialized
                 /\ out[i].c.OpenTime \notin TimesOf(batchIn)
                 /\ out[i].c.Volume = "0.00000000"
        /\ \A t \in OutTimes : CopiesIn(t, hist) = 1
        /\ \A t \in NewTimes :
              Cardinality({ i \in DOMAIN out : out[i].c.OpenTime = t }) = 1

\* C10 witness: a call returned a filler and a submitted candle while the
\* batch also held a candle that an earlier call had returned.
C10_Witness ==
    /\ Sanitized /\ Fillers # {}
    /\ \E i \in DOMAIN batchIn :
          batchIn[i].OpenTime \notin OutTimes /\ BagIn(batchIn[i].OpenTime, hist)

\* The open times returned before the last call, since the last reset.
ReturnedBefore ==
    { t \in BagToSet(hist) :
        CopiesIn(t, hist) > Cardinality({ i \in DOMAIN out : out[i].c.OpenTime = t }) }

\* C11: the output of every SanitizeBatch call is strictly ascending by
\* openTime, fillers included, for any input order of the batch; and in a
\* purely forward-advancing sequence of calls every output lies wholly after
\* all that was returned before, so that the concatenation strictly ascends.
C11_StrictlyAscending ==
    Sanitized =>
        /\ \A i \in 1..(Len(out) - 1) : out[i].c.OpenTime < out[i + 1].c.OpenTime
        /\ fwd => \A t \in ReturnedBefore : \A i \in DOMAIN out : t < out[i].c.OpenTime

\* C11 witness: in a forward-advancing sequence an unsorted batch of two
\* candles was returned in ascending order behind a filler.
C11_Witness ==
    /\ Sanitized /\ fwd /\ pre.initialized
    /\ Len(batchIn) = 2 /\ batchIn[1].OpenTime > batchIn[2].OpenTime
    /\ Len(out) = 3 /\ out[1].gap

\* The position in the caller's batch of its first record opening at t.
FirstInInput(t) == Least({ j \in DOMAIN batchIn : batchIn[j].OpenTime = t })

\* C12: when a batch holds several records of one openTime the sort keeps
\* them in the caller's order, so the record SanitizeBatch returns for an
\* openTime is the one that came first in the input batch.
C12_FirstInInputWins ==
    Sanitized =>
        /\ \A i, j \in DOMAIN batchOut :
             (i < j /\ batchOut[i].OpenTime = batchOut[j].OpenTime /\ batchOut[i] # batchOut[j])
                 => \E k, l \in DOMAIN batchIn :
                      k < l /\ batchIn[k] = batchOut[i] /\ batchIn[l] = batchOut[j]
        /\ \A i \in DOMAIN out :
             ~out[i].gap => out[i].c = batchIn[FirstInInput(out[i].c.OpenTime)]

\* C13: after SanitizeBatch returns, the caller's batch holds the same
\* records at the same positions as before the call: no field of a record of
\* the caller is changed and the caller's sequence is not reordered.
C13_CallerBatchUntouched ==
    Sanitized => batchOut = batchIn

\* C14: firstCandle and lastCandle are copies.  When the caller changes a
\* record of a batch after SanitizeBatch returned, or the record GetLastCandle
\* returned, firstCandle and lastCandle are as before, and the sanitizer still
\* equals one that was given the same calls and never written to, so every
\* later SanitizeBatch and GetLastCandle returns what it would have returned.
C14_CandlesAreCopies ==
    (pc = "returned" /\ op = "CallerWrites") =>
        /\ firstCandle = pre.firstCandle
        /\ lastCandle = pre.lastCandle
        /\ Self = fresh

\* C14 witness: the caller wrote to a record it held while the sanitizer held
\* two different candles as firstCandle and lastCandle.
C14_Witness ==
    /\ pc = "returned" /\ op = "CallerWrites"
    /\ initialized /\ firstCandle # Nil /\ lastCandle # Nil
    /\ firstCandle.OpenTime < lastCandle.OpenTime

\* A Timeframe whose value is 0 or whose unit is none of m, h, D, W, M, Y.
Malformed(tf) == tf.Value = 0 \/ ~UnitIsValid(tf.Unit)

\* C15: SanitizeBatch called with a non-empty batch on a sanitizer whose
\* Timeframe is malformed returns an error and no records; with a well-formed
\* Timeframe it returns no error, whatever the batch.
C15_MalformedTimeframeFails ==
    (Sanitized /\ Len(batchIn) > 0) =>
        IF Malformed(pre.timeframe) THEN err # Nil /\ Len(out) = 0
        ELSE err = Nil

\* C16: SanitizeBatch terminates and returns for every finite batch, in every
\* reachable state of the sanitizer and for every Timeframe it can have: no
\* call is ever inside a gap-filling loop that cannot end.
C16_SanitizeBatchReturns ==
    pc # "diverged"

\* ValidateBatch was the last call.
Validated == pc = "returned" /\ op = "ValidateBatch"

\* A text that is a number: after leading spaces, if any, the whole of it is
\* one decimal numeral.
IsNumber(text) ==
    /\ FloatTokenEnd(text, SkipSpace(text, 1)) = Len(text) + 1
    /\ ConvertFloat(SubSeq(text, SkipSpace(text, 1), Len(text))).ok

NumberOf(text) == ConvertFloat(SubSeq(text, SkipSpace(text, 1), Len(text))).f

\* A record with one of the defects of the single-record invariant.
Defect(r) ==
    \/ r.OpenTime <= 0
    \/ \E text \in { r.Open, r.High, r.Low, r.Close, r.Volume } : ~IsNumber(text)
    \/ /\ \A text \in { r.Open, r.High, r.Low, r.Close } : IsNumber(text)
       /\ \/ FloatLess(NumberOf(r.High), NumberOf(r.Low))
          \/ FloatLess(NumberOf(r.High), NumberOf(r.Open))
          \/ FloatLess(NumberOf(r.High), NumberOf(r.Close))
          \/ FloatLess(NumberOf(r.Open), NumberOf(r.Low))
          \/ FloatLess(NumberOf(r.Close), NumberOf(r.Low))

\* The indices, counted from 0, of the records of the batch that have a defect.
Defective(batch) == { i - 1 : i \in { j \in DOMAIN batch : Defect(batch[j]) } }

\* C17: ValidateBatch returns an error if and only if some record of the
\* batch has openTime <= 0, or a field among open, high, low, close, volume
\* that is not a number, or high < low, high < open, high < close, low > open
\* or low > close; a batch without such a record, the empty one included,
\* passes.
C17_ErrorIffDefect ==
    Validated => ((err # Nil) <=> (Defective(batchIn) # {}))

\* C18: when ValidateBatch fails, the index its error carries is the smallest
\* index of a record of the batch, in the caller's order, that violates the
\* single-record invariant.
C18_SmallestDefectiveIndex ==
    (Validated /\ err # Nil) =>
        /\ Defective(batchIn) # {}
        /\ err.index = Least(Defective(batchIn))

\* C19: ValidateBatch changes neither firstCandle, lastCandle, initialized,
\* the timeframe nor the batch, whether it succeeds or fails, and what it
\* returns for a batch in any state is what it returns for it in the Empty
\* state.
C19_ValidateBatchReadsOnly ==
    Validated =>
        /\ Self = pre
        /\ batchOut = batchIn
        /\ err = ValidateBatch(NewOHLCVSanitizer(pre.timeframe), batchIn).err

\* C19 witness: a batch failed validation on a sanitizer that holds two
\* different candles.
C19_Witness ==
    /\ Validated /\ err # Nil /\ Len(batchIn) = 2
    /\ pre.initialized /\ pre.firstCandle.OpenTime < pre.lastCandle.OpenTime

\* TimeframeFromString was the last call.
Parsed == pc = "returned" /\ op = "TimeframeFromString"

\* The text is n digits and a unit character, alone or followed by ':' and
\* one zone name that exists.
HasForm(text, n) ==
    /\ n >= 1 /\ n < Len(text)
    /\ \A i \in 1..n : IsDigit(text[i])
    /\ UnitIsValid(text[n + 1])
    /\ \/ Len(text) = n + 1
       \/ /\ Len(text) > n + 2
          /\ text[n + 2] = ":"
          /\ \A i \in (n + 3)..Len(text) : text[i] # ":"
          /\ LoadLocationFinds(SubSeq(text, n + 3, Len(text)))

\* What a text of that form stands for.
Meaning(text, n) ==
    Timeframe(DecimalValue(SubSeq(text, 1, n)), text[n + 1],
              IF Len(text) = n + 1 THEN UTC ELSE SubSeq(text, n + 3, Len(text)))

\* C20: parse succeeds exactly on the texts <digits><unitChar>, with unitChar
\* in {m,h,D,W,M,Y}, optionally followed by ':' and one zone name; it then
\* returns the value of the digits, the unit and the named zone, or UTC when
\* none is given.  Every other text yields an error and no Timeframe.
C20_ParseExactlyTheForm ==
    Parsed =>
        IF \E n \in 1..Len(strIn) : HasForm(strIn, n)
        THEN /\ parsed.err = Nil
             /\ parsed.tf = Meaning(strIn, CHOOSE n \in 1..Len(strIn) : HasForm(strIn, n))
        ELSE /\ parsed.err # Nil
             /\ parsed.tf = ZeroTimeframe

\* C21: every Timeframe a successful parse returns has value > 0 and a unit
\* among m, h, D, W, M, Y; a text whose digits denote 0 is rejected.
C21_ParsedIsWellFormed ==
    (Parsed /\ parsed.err = Nil) =>
        /\ parsed.tf.Value > 0
        /\ UnitIsValid(parsed.tf.Unit)

\* C29: after a SanitizeBatch call that returns a non-empty output,
\* firstCandle is whichever of the previous firstCandle and the first output
\* record opens earlier, and lastCandle whichever of the previous lastCandle
\* and the last output record opens later; so from call to call
\* firstCandle.openTime never increases and lastCandle.openTime never decreases.
C29_BoundariesOnlyWiden ==
    Sanitized =>
        /\ Len(out) > 0 =>
            /\ firstCandle =
                 IF pre.initialized /\ pre.firstCandle.OpenTime <= out[1].c.OpenTime
                 THEN pre.firstCandle ELSE out[1].c
            /\ lastCandle =
                 IF pre.initialized /\ pre.lastCandle.OpenTime >= out[Len(out)].c.OpenTime
                 THEN pre.lastCandle ELSE out[Len(out)].c
        /\ pre.initialized =>
            /\ firstCandle.OpenTime <= pre.firstCandle.OpenTime
            /\ lastCandle.OpenTime >= pre.lastCandle.OpenTime

\* C29 witness: a batch of older candles moved firstCandle back and left
\* lastCandle where it was.
C29_Witness ==
    /\ Sanitized /\ pre.initialized /\ Len(out) > 0
    /\ firstCandle.OpenTime < pre.firstCandle.OpenTime
    /\ lastCandle = pre.lastCandle
    /\ out[Len(out)].c.OpenTime < pre.firstCandle.OpenTime

\* The method name of tfOn has been called on timeIn and has come to timeOut.
Called(name) == pc = "returned" /\ op = name

\* The minutes of one unit, as the documentation lists them.
MinutesOfUnit(unit) ==
    CASE unit = Minutes -> 1
      [] unit = Hours -> 60
      [] unit = Days -> 1440
      [] unit = Weeks -> 10080
      [] unit = Months -> 43200
      [] unit = Years -> 525600

\* C22: ToMinutes() without a reference time returns value times 1, 60, 1440,
\* 10080, 43200, 525600 for the units m, h, D, W, M, Y; for the units m, h, D
\* and W a reference time does not change the result.
C22_FixedMultipliers ==
    /\ Called("ToMinutes") =>
           timeOut = Return(tfOn.Value * MinutesOfUnit(tfOn.Unit))
    /\ (Called("ToMinutesRef") /\ tfOn.Unit \in { Minutes, Hours, Days, Weeks }) =>
           timeOut = Return(tfOn.Value * MinutesOfUnit(tfOn.Unit))

\* C22 witness: two days measured with a reference time on the 23-hour day
\* of New York are 2880 minutes.
C22_Witness ==
    /\ Called("ToMinutesRef")
    /\ tfOn.Unit = Days /\ tfOn.Value = 2
    /\ timeIn.loc = NewYork
    /\ Sub(AddDate(StartOfDay(timeIn), 0, 0, 1), StartOfDay(timeIn)) = 23 * 3600
    /\ timeOut = Return(2880)

\* The time it is on the clock of tfOn's zone at the instant of timeIn.
LocalIn == InLocation(tfOn, timeIn)

\* u lies on a minute whose minute-of-day is a multiple of value, seconds zero.
OnMinuteOfDay(u, value) ==
    Second(u) = 0 /\ (Hour(u) * 60 + Minute(u)) % value = 0

\* C23: for a minute timeframe with value > 0, LastOpen(t) is the greatest
\* time <= t, in the timeframe's zone, whose minute-of-day is a multiple of
\* value and whose seconds are zero.
C23_MinuteFloorWithinDay ==
    (Called("LastOpen") /\ tfOn.Unit = Minutes /\ tfOn.Value > 0) =>
        /\ ~timeOut.panicked
        /\ timeOut.value.unix <= timeIn.unix
        /\ OnMinuteOfDay(timeOut.value, tfOn.Value)
        /\ \A k \in 1..((timeIn.unix - timeOut.value.unix) \div 60) :
               ~OnMinuteOfDay(Add(timeOut.value, 60 * k), tfOn.Value)

\* t and u lie on the same day of the calendar of their zone.
SameDay(t, u) == Year(t) = Year(u) /\ Month(t) = Month(u) /\ Day(t) = Day(u)

\* u is a midnight.
Midnight(u) == Hour(u) = 0 /\ Minute(u) = 0 /\ Second(u) = 0

\* u lies on an hour of t's day that is a multiple of value, minutes and
\* seconds zero.
OnHourOfDay(u, t, value) ==
    SameDay(u, t) /\ Hour(u) % value = 0 /\ Minute(u) = 0 /\ Second(u) = 0

\* C24: LastOpen(t), in the timeframe's zone, is for an hour timeframe with
\* value > 0 the greatest time <= t on t's local day whose hour is a multiple
\* of value with minutes and seconds zero; for a day timeframe the midnight
\* of t's day; for a week timeframe the midnight of the Monday on or less
\* than 7 days before t; for a month timeframe the midnight of the 1st of
\* t's month; for a year timeframe the midnight of January 1 of t's year.
C24_HourAndCalendarFloors ==
    (/\ Called("LastOpen")
     /\ tfOn.Unit \in { Hours, Days, Weeks, Months, Years }
     /\ tfOn.Unit = Hours => tfOn.Value > 0) =>
        /\ ~timeOut.panicked
        /\ timeOut.value.unix <= timeIn.unix
        /\ LET r == timeOut.value
               t == LocalIn
           IN  CASE tfOn.Unit = Hours ->
                        /\ OnHourOfDay(r, t, tfOn.Value)
                        /\ \A k \in 1..((t.unix - r.unix) \div 3600) :
                               ~OnHourOfDay(Add(r, 3600 * k), t, tfOn.Value)
                 [] tfOn.Unit = Days -> Midnight(r) /\ SameDay(r, t)
                 [] tfOn.Unit = Weeks ->
                        /\ Midnight(r) /\ Weekday(r) = 1
                        /\ DaysFromCivil(Year(t), Month(t), Day(t))
                             - DaysFromCivil(Year(r), Month(r), Day(r)) \in 0..6
                 [] tfOn.Unit = Months ->
                        /\ Midnight(r) /\ Day(r) = 1
                        /\ Month(r) = Month(t) /\ Year(r) = Year(t)
                 [] tfOn.Unit = Years ->
                        /\ Midnight(r) /\ Day(r) = 1 /\ Month(r) = 1
                        /\ Year(r) = Year(t)

\* value is a proper divisor of 60.
ProperDivisorOf60(value) == value > 0 /\ value < 60 /\ 60 % value = 0

\* u is a boundary of tfOn: LastOpen returns and leaves the instant alone.
OnBoundary(u) ==
    LET last == LastOpen(tfOn, u)
    IN  ~last.panicked /\ Equal(last.value, u)

\* C25: NextOpen(t) returns t itself when t = LastOpen(t), and otherwise
\* LastOpen(t) plus one period (value calendar months or years for M and Y,
\* ToMinutes() minutes for the other units); for a minute timeframe whose
\* value is a proper divisor of 60 and an hour timeframe whose value divides
\* 24 it is the least time t' >= t with LastOpen(t') = t'.  (Every boundary
\* lies on a whole minute, so the whole minutes from t are all that can lie
\* before it.)
C25_NextOpenIsNextBoundary ==
    (Called("NextOpen") /\ ~LastOpen(tfOn, timeIn).panicked) =>
        LET last == LastOpen(tfOn, timeIn).value
        IN  /\ ~timeOut.panicked
            /\ timeOut.value =
                 IF Equal(last, timeIn) THEN timeIn
                 ELSE IF tfOn.Unit = Months THEN AddDate(last, 0, tfOn.Value, 0)
                 ELSE IF tfOn.Unit = Years THEN AddDate(last, tfOn.Value, 0, 0)
                 ELSE Add(last, ToMinutes(tfOn) * 60)
            /\ (\/ tfOn.Unit = Minutes /\ ProperDivisorOf60(tfOn.Value)
                \/ tfOn.Unit = Hours /\ tfOn.Value > 0 /\ 24 % tfOn.Value = 0) =>
                   /\ timeOut.value.unix >= timeIn.unix
                   /\ OnBoundary(timeOut.value)
                   /\ \A k \in 1..((timeOut.value.unix - timeIn.unix) \div 60) :
                          ~OnBoundary(Add(timeOut.value, (-60) * k))

\* C26 as documented: CloseTime(t) is NextOpen(LastOpen(t)).
C26_CloseIsNextOfLast ==
    (Called("CloseTime") /\ ~LastOpen(tfOn, timeIn).panicked) =>
        LET next == NextOpen(tfOn, LastOpen(tfOn, timeIn).value)
        IN  /\ ~timeOut.panicked
            /\ ~next.panicked
            /\ Equal(timeOut.value, next.value)

\* C26: whenever LastOpen(t) returns, CloseTime(t) is LastOpen(t) plus one
\* period (value calendar months or years for M and Y, ToMinutes() minutes
\* for the other units), which is NextOpen(t) whenever t is not itself
\* LastOpen(t); CloseTime(t) panics exactly when LastOpen(t) does.
C26_CloseIsOnePeriodAfterLastOpen ==
    Called("CloseTime") =>
        LET last == LastOpen(tfOn, timeIn)
        IN  IF last.panicked THEN timeOut.panicked
            ELSE /\ ~timeOut.panicked
                 /\ timeOut.value =
                      IF tfOn.Unit = Months THEN AddDate(last.value, 0, tfOn.Value, 0)
                      ELSE IF tfOn.Unit = Years THEN AddDate(last.value, tfOn.Value, 0, 0)
                      ELSE Add(last.value, ToMinutes(tfOn) * 60)
                 /\ ~Equal(last.value, timeIn) => timeOut = NextOpen(tfOn, timeIn)

\* C26 witness: CloseTime was called on a time that is itself a boundary and
\* returned a later one, where NextOpen returns the boundary itself.
C26_Witness ==
    /\ Called("CloseTime")
    /\ OnBoundary(timeIn)
    /\ ~timeOut.panicked
    /\ timeOut.value.unix > timeIn.unix
    /\ NextOpen(tfOn, LastOpen(tfOn, timeIn).value) = Return(LocalIn)

\* C27: for a timeframe with value > 0, IsValidCandleOpenTime(t) is true if
\* and only if t = LastOpen(t); a time with non-zero seconds, or one that
\* LastOpen would move, is never reported valid, and every LastOpen(t) is
\* reported valid.
C27_ValidIffOnBoundary ==
    /\ (/\ Called("IsValidCandleOpenTime") /\ tfOn.Value > 0
        /\ ~LastOpen(tfOn, timeIn).panicked) =>
           timeOut = Return(Equal(LastOpen(tfOn, timeIn).value, timeIn))
    /\ (Called("LastOpen") /\ tfOn.Value > 0 /\ ~timeOut.panicked) =>
           IsValidCandleOpenTime(tfOn, timeOut.value) = Return(TRUE)

\* C28: for every Timeframe the parser accepts (digits, a valid unit, a zone
\* that is found) and every time, LastOpen, NextOpen, CloseTime and
\* IsValidCandleOpenTime return a value: none of them panics.
C28_NoMethodPanics ==
    (/\ pc = "returned"
     /\ op \in { "LastOpen", "NextOpen", "CloseTime", "IsValidCandleOpenTime" }
     /\ tfOn.Location # Nil) =>
        ~timeOut.panicked

\* The seconds SanitizeBatch is documented to count for one period of a
\* month or year timeframe: value times 30 days, value times 365 days.
ApproximatePeriod(tf) ==
    tf.Value * (IF tf.Unit = Months THEN 30 ELSE 365) * 86400

\* C30: for a month or year timeframe the fillers SanitizeBatch produces are
\* spaced exactly value*30 days (month) or value*365 days (year) apart,
\* counted in seconds from lastCandle.OpenTime, whatever the lengths of the
\* calendar months and years crossed: they are the times lastCandle.OpenTime
\* + k periods, k = 1, 2, ..., below the first retained candle.
C30_FillersOnApproximatePeriods ==
    (Sanitized /\ timeframe.Unit \in { Months, Years } /\ Fillers # {}) =>
        LET n == Cardinality(Fillers)
            step == ApproximatePeriod(timeframe)
        IN  /\ \A k \in 1..n :
                   /\ out[k].gap
                   /\ out[k].c.OpenTime = pre.lastCandle.OpenTime + k * step
            /\ Len(out) > n
            /\ out[n + 1].c.OpenTime > pre.lastCandle.OpenTime + n * step
            /\ out[n + 1].c.OpenTime <= pre.lastCandle.OpenTime + (n + 1) * step

\* C30 witness: a one-month sanitizer that held the candle of 2024-01-01 was
\* given the candle of 2024-04-01 and returned fillers on January 31, March 1
\* and March 31 before it.
C30_Witness ==
    /\ Sanitized /\ timeframe = NewTimeframe(1, Months)
    /\ pre.lastCandle # Nil
    /\ pre.lastCandle.OpenTime = Date(2024, 1, 1, 0, 0, 0, UTC).unix
    /\ Len(out) = 4
    /\ out[1].gap /\ out[1].c.OpenTime = Date(2024, 1, 31, 0, 0, 0, UTC).unix
    /\ out[2].gap /\ out[2].c.OpenTime = Date(2024, 3, 1, 0, 0, 0, UTC).unix
    /\ out[3].gap /\ out[3].c.OpenTime = Date(2024, 3, 31, 0, 0, 0, UTC).unix
    /\ ~out[4].gap /\ out[4].c.OpenTime = Date(2024, 4, 1, 0, 0, 0, UTC).unix

\* The days of month m of year y, and of year y, in the Gregorian calendar.
LeapYear(y) == y % 4 = 0 /\ (y % 100 # 0 \/ y % 400 = 0)

DaysOfMonth(y, m) ==
    IF m = 2 THEN (IF LeapYear(y) THEN 29 ELSE 28)
    ELSE IF m \in { 4, 6, 9, 11 } THEN 30 ELSE 31

DaysOfYear(y) == IF LeapYear(y) THEN 366 ELSE 365

\* C31: ToMinutes(ref) returns for a month timeframe the minutes from the
\* start of ref's month to that start plus value calendar months, and for a
\* year timeframe the minutes from January 1 of ref's year to January 1 value
\* years later; one month at a UTC reference is the 28, 29, 30 or 31 days of
\* ref's month, one year its 365 or 366 days.
C31_ExactCalendarMinutes ==
    (Called("ToMinutesRef") /\ tfOn.Unit \in { Months, Years }) =>
        LET y == Year(timeIn)
            m == Month(timeIn)
            first == IF tfOn.Unit = Months THEN m ELSE 1
            from == Date(y, first, 1, 0, 0, 0, timeIn.loc)
            to == IF tfOn.Unit = Months
                  THEN Date(y, m + tfOn.Value, 1, 0, 0, 0, timeIn.loc)
                  ELSE Date(y + tfOn.Value, 1, 1, 0, 0, 0, timeIn.loc)
        IN  /\ timeOut = Return((to.unix - from.unix) \div 60)
            /\ (to.unix - from.unix) % 60 = 0
            /\ (timeIn.loc = UTC /\ tfOn.Value = 1) =>
                   timeOut.value = 1440 * (IF tfOn.Unit = Months THEN DaysOfMonth(y, m)
                                           ELSE DaysOfYear(y))

\* C31 witness: one month measured from a day of February 2025 is 28 days,
\* which differs from ToMinutes() without a reference.
C31_Witness ==
    /\ Called("ToMinutesRef")
    /\ tfOn.Unit = Months /\ tfOn.Value = 1
    /\ timeIn.loc = UTC /\ Year(timeIn) = 2025 /\ Month(timeIn) = 2
    /\ timeOut = Return(28 * 1440)
    /\ timeOut.value # ToMinutes(tfOn)

\* C32: in every reachable state of a sanitizer, initialized is true exactly
\* when firstCandle is present and exactly when lastCandle is present, and
\* when they are present firstCandle.OpenTime <= lastCandle.OpenTime.
C32_InitializedIffBoundaries ==
    /\ initialized <=> firstCandle # Nil
    /\ initialized <=> lastCandle # Nil
    /\ initialized => firstCandle.OpenTime <= lastCandle.OpenTime

\* C32 witness: a sanitizer that was reset holds two different boundaries
\* again.
C32_Witness ==
    /\ wasReset /\ initialized
    /\ firstCandle # Nil /\ lastCandle # Nil
    /\ firstCandle.OpenTime < lastCandle.OpenTime

\* C33: a non-empty batch all of whose candles lie inside the already-seen
\* range [firstCandle.openTime, lastCandle.openTime] makes SanitizeBatch
\* return an empty output with no error and leaves firstCandle, lastCandle
\* and initialized unchanged.
C33_SeenBatchChangesNothing ==
    (Sanitized /\ pre.initialized /\ batchIn # << >>
        /\ TimesOf(batchIn) \subseteq SeenRange(pre))
    => /\ out = << >>
       /\ err = Nil
       /\ firstCandle = pre.firstCandle
       /\ lastCandle = pre.lastCandle
       /\ initialized = pre.initialized

\* C33 witness: a batch of two candles, opening at firstCandle's and at
\* lastCandle's time and differing from both, was passed to a sanitizer whose
\* range spans more than one time.
C33_Witness ==
    /\ Sanitized /\ pre.initialized /\ Len(batchIn) = 2
    /\ pre.firstCandle.OpenTime < pre.lastCandle.OpenTime
    /\ TimesOf(batchIn) = { pre.firstCandle.OpenTime, pre.lastCandle.OpenTime }
    /\ pre.firstCandle \notin RecordsOf(batchIn)
    /\ pre.lastCandle \notin RecordsOf(batchIn)
    /\ out = << >>

\* C34: in every reachable state firstCandle and lastCandle are copies of
\* real candles that a caller submitted, never of a synthesized filler: after
\* every call each of them is what it was before the call or equals a record
\* of the batch of this call; a filler is never the first record of an output
\* that lowers firstCandle and never the last record of an output.
C34_BoundariesAreSubmittedCandles ==
    Sanitized =>
        /\ firstCandle \in { pre.firstCandle } \cup RecordsOf(batchIn)
        /\ lastCandle \in { pre.lastCandle } \cup RecordsOf(batchIn)
        /\ Len(out) > 0 =>
              /\ ~out[Len(out)].gap
              /\ (~pre.initialized \/ out[1].c.OpenTime < pre.firstCandle.OpenTime)
                    => ~out[1].gap
        /\ \A i \in Fillers :
              /\ firstCandle # out[i].c
              /\ lastCandle # out[i].c

\* C34 witness: an output opened with a filler and moved lastCandle to the
\* submitted candle that closes it, leaving firstCandle where it was.
C34_Witness ==
    /\ Sanitized /\ pre.initialized /\ Len(out) >= 2
    /\ out[1].gap
    /\ lastCandle = out[Len(out)].c /\ lastCandle # pre.lastCandle
    /\ lastCandle \in RecordsOf(batchIn)
    /\ firstCandle = pre.firstCandle

\* C36: after every SanitizeBatch call, every openTime returned by this or
\* any earlier call since the last reset lies within
\* [firstCandle.openTime, lastCandle.openTime].
C36_ReturnedWithinBoundaries ==
    Sanitized =>
        \A t \in BagToSet(hist) :
            /\ initialized
            /\ firstCandle.OpenTime <= t
            /\ t <= lastCandle.OpenTime

\* C36 witness: after a reset, a call returned open times beyond lastCandle
\* while the calls before it had returned a time strictly inside the range,
\* four different times in all.
C36_Witness ==
    /\ Sanitized /\ wasReset /\ pre.initialized /\ Len(out) > 0
    /\ \E t \in ReturnedBefore : t < pre.lastCandle.OpenTime /\ t > pre.firstCandle.OpenTime
    /\ out[1].c.OpenTime > pre.lastCandle.OpenTime
    /\ Cardinality(BagToSet(hist)) >= 4

\* C35: SanitizeBatch never loses unseen data: every input candle that a call
\* does not return has an openTime that is returned by this call for another
\* record of the batch or that was already returned, as a real or a filler
\* candle, by an earlier call since the last reset; for any mix of forward and
\* backward batches.
C35_NoUnseenDataLost ==
    Sanitized =>
        \A i \in DOMAIN batchIn :
            \/ batchIn[i].OpenTime \in OutTimes
            \/ batchIn[i].OpenTime \in ReturnedBefore

\* The submitted candles the last call returned that open after the
\* lastCandle held when the call started.
BeyondLast ==
    { i \in DOMAIN out : ~out[i].gap /\ out[i].c.OpenTime > pre.lastCandle.OpenTime }

\* The output holds a filler at every period boundary between the lastCandle
\* held when the call started and the earliest submitted candle returned
\* beyond it.
FilledUpToEarliestBeyond ==
    LET L == pre.lastCandle.OpenTime
        C == Least({ out[i].c.OpenTime : i \in BeyondLast })
    IN  C > L + Period =>
            Boundaries(L, C, Period) \subseteq { out[i].c.OpenTime : i \in Fillers }

\* C37 as stated: whenever a SanitizeBatch call in the Bounded state with
\* period P > 0 returns a real candle that opens after lastCandle.openTime + P
\* (lastCandle as at the start of the call) and is the earliest returned
\* candle beyond lastCandle, the same output holds a filler for every time
\* lastCandle.openTime + k*P below that candle, also when the batch
\* additionally holds candles older than firstCandle.
C37_GapBeyondLastFilled ==
    (Sanitized /\ pre.initialized /\ Period > 0 /\ BeyondLast # {})
    => FilledUpToEarliestBeyond

\* C37 amended: the same, when the call returns no candle older than
\* firstCandle.
C37_GapBeyondLastFilledForward ==
    (Sanitized /\ pre.initialized /\ Period > 0 /\ BeyondLast # {}
        /\ \A i \in DOMAIN out : out[i].c.OpenTime >= pre.firstCandle.OpenTime)
    => FilledUpToEarliestBeyond

\* C37 witness: a batch of one candle, three periods after lastCandle, was
\* returned behind two fillers.
C37_Witness ==
    /\ Sanitized /\ pre.initialized /\ Period > 0
    /\ Len(batchIn) = 1 /\ Len(out) = 3
    /\ Fillers = { 1, 2 }
    /\ BeyondLast = { 3 }
    /\ out[3].c = batchIn[1]
    /\ out[3].c.OpenTime = pre.lastCandle.OpenTime + 3 * Period

\* C38: for every timeframe with value > 0 on which LastOpen is defined and
\* every time t: LastOpen(LastOpen(t)) = LastOpen(t), and
\* LastOpen(t) <= t < CloseTime(t), where CloseTime(t) is LastOpen(t) plus one
\* period.
C38_LastOpenIdempotentAndBracketing ==
    (Called("LastOpen") /\ tfOn.Value > 0 /\ ~timeOut.panicked) =>
        LET again == LastOpen(tfOn, timeOut.value)
            close == CloseTime(tfOn, timeIn)
        IN  /\ ~again.panicked
            /\ Equal(again.value, timeOut.value)
            /\ timeOut.value.unix <= timeIn.unix
            /\ ~close.panicked
            /\ close.value = OnePeriodAfter(tfOn, timeOut.value)
            /\ timeIn.unix < close.value.unix

\* A text without surplus segments: a value and unit, and at most one zone.
NoSurplusSegments(str) == Len(Split(str, ":")) <= 2

\* C39: for every Timeframe tf with a valid unit and a zone (a zone of the
\* zone database), TimeframeFromString(tf.StringWithLocation()) succeeds and
\* returns the same value, unit and zone, and TimeframeFromString(tf.String())
\* returns the same value and unit with zone UTC; conversely for every text s
\* that TimeframeFromString accepts and that has no surplus segments,
\* TimeframeFromString(s).StringWithLocation() parses back to the same
\* Timeframe.
C39_TextRoundTrips ==
    /\ (pc = "returned" /\ op = "StringWithLocation" /\ UnitIsValid(tfOn.Unit)
          /\ tfOn.Location # Nil /\ LoadLocationFinds(tfOn.Location))
       => /\ parsed.err = Nil
          /\ parsed.tf.Value = tfOn.Value
          /\ parsed.tf.Unit = tfOn.Unit
          /\ parsed.tf.Location = tfOn.Location
    /\ (pc = "returned" /\ op = "String" /\ UnitIsValid(tfOn.Unit))
       => /\ parsed.err = Nil
          /\ parsed.tf.Value = tfOn.Value
          /\ parsed.tf.Unit = tfOn.Unit
          /\ parsed.tf.Location = UTC
    /\ (pc = "returned" /\ op = "StringWithLocation of parsed"
          /\ NoSurplusSegments(strIn))
       => /\ tfOn = TimeframeFromString(strIn).tf
          /\ parsed.err = Nil
          /\ parsed.tf = tfOn

\* C39 witness: a text with a leading zero and no zone was parsed, and the
\* Timeframe parsed back from another text, its own textual form with the
\* zone.
C39_Witness ==
    /\ pc = "returned" /\ op = "StringWithLocation of parsed"
    /\ strIn = << "0", "5", "m" >>
    /\ StringWithLocation(tfOn) = << "5", "m", ":" >> \o UTC
    /\ parsed.err = Nil
    /\ parsed.tf = Timeframe(5, Minutes, UTC)

====
